---- MODULE Spec2Model ----
(***************************************************************************)
(* Verification model of the content pipeline's TTL cache (lib/cache.ts),  *)
(* its URL key normalisation, the retrying fetcher (lib/cleaner.ts), the   *)
(* request classifier (AIDetector, second half of app/layout.tsx) and the  *)
(* route handlers /api/geo, /api/parse and /api/generate over irCache.     *)
(*                                                                         *)
(* Strings whose structure matters (cache keys, URLs) are sequences of     *)
(* tokens: the empty string is <<>>, and a URL is its origin+path token    *)
(* followed by one token per query parameter.                              *)
(***************************************************************************)
EXTENDS Integers, Sequences, FiniteSets, TLC

VARIABLES
  \* ---- Cache<T> instance (lib/cache.ts) ----
  config,     \* CacheConfig: [ttl, maxSize, enabled]
  cache,      \* Map<string, CacheItem<T>> in Map iteration (insertion) order
  hits,       \* this.hits
  misses,     \* this.misses
  now,        \* Date.now(), in ms
  calls,      \* per caller: the pending getOrSet call (awaiting its factory) or Idle
  ret,        \* per caller: what its last completed getOrSet call returned or threw
  overlapped, \* observation: a lookup missed while another call awaited the same key
  setLog,     \* observation: the <<key, value>> pairs set so far, while only set ran
  last,       \* observation: why the most recent operation removed an entry, if it did
  \* ---- Cache.generateKey as a function under test ----
  url,        \* the input string
  key,        \* the returned key
  kpc,        \* "start" | "done"
  \* ---- HTMLCleaner.clean / fetchHTMLWithRetry ----
  fpc,        \* "init" | "request" | "backoff" | "parse" | "done"
  target,     \* kind of the url given to clean()
  attempt,    \* loop variable of fetchHTMLWithRetry
  ua,         \* index into USER_AGENTS of the last request
  timeoutMs,  \* timeout armed for the last request
  delays,     \* backoff delays waited so far, in ms
  outcomes,   \* what each request issued so far ended in
  lastError,  \* lastError of fetchHTMLWithRetry
  result,     \* result of clean(): [ok, code, original]
  \* ---- AIDetector ----
  detector,   \* this.config of the AIDetector: [strictMode, checkSuspicious]
  request,    \* the Request being classified
  verdict,    \* what the method called last returned
  dpc,        \* "start" | "done"
  \* ---- route handlers: GET /api/geo, POST /api/parse, POST /api/generate ----
  rpc,        \* "idle" | "clean" (the factory awaits htmlCleaner.clean) | "done"
  incoming,   \* the request in hand: [route, target, client, payload]
  resp,       \* the response sent for it
  reached,    \* observation: the components the request in hand has reached
  parsed,     \* observation: Readability's result and its conversion, last run
  generated,  \* observation: the article handed to irGenerator.generate, last run
  statusLog,  \* observation: <<category, status>> of the failures answered so far
  \* ---- IRGenerator / GeoGenerator methods as functions under test ----
  arg,        \* the argument of the call
  out,        \* what the call returned
  gpc         \* "start" | "done"

cacheVars == <<config, cache, hits, misses, now, calls, ret, overlapped, setLog, last>>
keyVars == <<url, key, kpc>>
fetchVars == <<fpc, target, attempt, ua, timeoutMs, delays, outcomes, lastError, result>>
detectVars == <<detector, request, verdict, dpc>>
routeVars == <<rpc, incoming, resp, reached, parsed, generated, statusLog>>
genVars == <<arg, out, gpc>>
vars == <<cacheVars, keyVars, fetchVars, detectVars, routeVars, genVars>>

\* ------------------------------------------------------------------------
\* Bounds of the model
\* ------------------------------------------------------------------------
MaxParams == 2     \* query parameters per URL given to generateKey
MaxEntries == 2    \* largest config.maxSize tried
MaxTicks == 2      \* clock advances
MaxLookups == 2    \* cap on hits + misses

\* ------------------------------------------------------------------------
\* URLs and Cache.generateKey
\* ------------------------------------------------------------------------
\* Origin+path tokens the WHATWG parser accepts, and how it serialises them
\* (scheme and host are lower-cased).
Bases == {"http://h/p", "HTTP://H/p", "http://h/q"}

SerializeBase(b) == IF b = "HTTP://H/p" THEN "http://h/p" ELSE b

\* Tokens that make `new URL(...)` throw when they lead the string.
Garbage == {"not a url"}

ParamNames ==
  {"id", "utm_source", "utm_medium", "utm_campaign", "utm_term", "fbclid", "_t"}

Params == [name : ParamNames, value : {"1"}]

RECURSIVE SeqsUpTo(_, _)
SeqsUpTo(S, n) ==
  IF n = 0 THEN {<<>>}
  ELSE LET shorter == SeqsUpTo(S, n - 1)
       IN shorter \cup {Append(s, x) : s \in {t \in shorter : Len(t) = n - 1}, x \in S}

\* Every input string tried: the empty string, malformed strings, URLs.
UrlStrings ==
  {<<>>}
    \cup {<<g>> \o ps : g \in Garbage, ps \in SeqsUpTo(Params, 1)}
    \cup {<<b>> \o ps : b \in Bases, ps \in SeqsUpTo(Params, MaxParams)}

\* new URL(url) succeeds
WellFormed(u) == Len(u) > 0 /\ Head(u) \in Bases

\* urlObj.searchParams.delete(param): drops every pair of that name
SearchParamsDelete(ps, name) == SelectSeq(ps, LAMBDA p : p.name # name)

paramsToRemove == <<"utm_source", "utm_medium", "utm_campaign", "fbclid", "_t">>

RECURSIVE RemoveAll(_, _, _)
RemoveAll(ps, names, i) ==
  IF i > Len(names) THEN ps
  ELSE RemoveAll(SearchParamsDelete(ps, names[i]), names, i + 1)

generateKey(u) ==
  IF WellFormed(u)
    THEN <<SerializeBase(Head(u))>> \o RemoveAll(Tail(u), paramsToRemove, 1)
    ELSE u


\* ------------------------------------------------------------------------
\* Cache<T>
\* ------------------------------------------------------------------------
DefaultTTL == 3600   \* DEFAULT_CONFIG.ttl, and irCache's ttl (seconds)
HtmlTTL == 1800      \* htmlCache's ttl (seconds)

\* The clock advances in steps of one default TTL, so that an entry is seen
\* before, exactly at and after its expiresAt.
TickMs == DefaultTTL * 1000

Callers == {1, 2}

\* Keys given to the cache directly; "" is <<>>.
Keys == {<<>>, <<"http://h/p">>, <<"http://h/q">>}

\* URLs given to getCachedIR.
PageUrls ==
  { <<"http://h/p">>,
    <<"HTTP://H/p", [name |-> "utm_source", value |-> "1"]>>,
    <<"http://h/q">> }

\* Values of T. "" is a falsy value of T (Cache<string>), the others are truthy.
Values == {"", "v1"}
IRValues == {"v1", "v2"}   \* IR objects: always truthy
Null == "NULL"             \* null
Err == "ERR"               \* a rejected promise

\* ttl arguments: 0 stands for an omitted (undefined) or zero ttl, both falsy
TTLArgs == {0, HtmlTTL}

\* Arguments of a direct set(key, value, ttl). get, set, evictOldest and cleanup
\* never inspect the value, so each value is paired with one ttl argument.
Writes == {[value |-> "", ttl |-> 0], [value |-> "v1", ttl |-> HtmlTTL]}

\* JS truthiness of a string / of a value of T
TruthyString(s) == Len(s) > 0
Truthy(v) == v # "" /\ v # Null

Idle == [kind |-> "idle", key |-> <<>>, ttl |-> 0]
NoLog == [ok |-> FALSE, log |-> <<>>]

\* ---- Map<string, CacheItem<T>> ----
MapIndex(c, k) ==
  IF \E i \in 1..Len(c) : c[i].key = k
    THEN CHOOSE i \in 1..Len(c) : c[i].key = k
    ELSE 0

MapHas(c, k) == MapIndex(c, k) # 0

MapGet(c, k) == c[MapIndex(c, k)]

MapDelete(c, k) == SelectSeq(c, LAMBDA e : e.key # k)

\* Map.set keeps the position of a key that is already present
MapSet(c, e) ==
  IF MapHas(c, e.key) THEN [c EXCEPT ![MapIndex(c, e.key)] = e] ELSE Append(c, e)

\* ---- evictOldest ----
\* The scan of evictOldest: oldestKey/oldestTime after entries i..Len(c).
RECURSIVE EvictScan(_, _, _)
EvictScan(c, i, acc) ==
  IF i > Len(c) THEN acc
  ELSE EvictScan(c, i + 1,
         IF acc.isNull \/ c[i].timestamp < acc.oldestTime
           THEN [isNull |-> FALSE, oldestKey |-> c[i].key, oldestTime |-> c[i].timestamp]
           ELSE acc)

evictOldest(c) ==
  LET r == EvictScan(c, 1, [isNull |-> TRUE, oldestKey |-> <<>>, oldestTime |-> 0])
  IN \* if (oldestKey): null and the empty string are both falsy
     IF ~r.isNull /\ TruthyString(r.oldestKey) THEN MapDelete(c, r.oldestKey) ELSE c

\* set that keeps the entry of a key already present (first writer wins)
CacheSetIfAbsent(c, k, data, ttl) ==
  IF ~config.enabled \/ MapHas(c, k) THEN c
  ELSE LET c1 == IF Len(c) >= config.maxSize THEN evictOldest(c) ELSE c
           actualTTL == IF ttl # 0 THEN ttl ELSE config.ttl
       IN MapSet(c1, [key |-> k, data |-> data, timestamp |-> now,
                      expiresAt |-> now + actualTTL * 1000])

\* set that adds the ttl to the clock without converting seconds to ms
CacheSetSeconds(c, k, data, ttl) ==
  IF ~config.enabled THEN c
  ELSE LET c1 == IF Len(c) >= config.maxSize THEN evictOldest(c) ELSE c
           actualTTL == IF ttl # 0 THEN ttl ELSE config.ttl
       IN MapSet(c1, [key |-> k, data |-> data, timestamp |-> now,
                      expiresAt |-> now + actualTTL])

\* ---- set ----
CacheSet(c, k, data, ttl) ==
  IF ~config.enabled THEN c
  ELSE LET c1 == IF Len(c) >= config.maxSize THEN evictOldest(c) ELSE c
           actualTTL == IF ttl # 0 THEN ttl ELSE config.ttl
       IN MapSet(c1, [key |-> k, data |-> data, timestamp |-> now,
                      expiresAt |-> now + actualTTL * 1000])

\* get with the expiry test written `>=`: an entry is dropped at its expiresAt
CacheGetEager(k) ==
  IF ~config.enabled
    THEN [value |-> Null, cache |-> cache, hits |-> hits, misses |-> misses]
  ELSE IF ~MapHas(cache, k)
    THEN [value |-> Null, cache |-> cache, hits |-> hits, misses |-> misses + 1]
  ELSE IF now >= MapGet(cache, k).expiresAt
    THEN [value |-> Null, cache |-> MapDelete(cache, k), hits |-> hits,
          misses |-> misses + 1]
  ELSE [value |-> MapGet(cache, k).data, cache |-> cache, hits |-> hits + 1,
        misses |-> misses]

\* get that drops an expired entry without counting the miss
CacheGetExpiredUncounted(k) ==
  IF ~config.enabled
    THEN [value |-> Null, cache |-> cache, hits |-> hits, misses |-> misses]
  ELSE IF ~MapHas(cache, k)
    THEN [value |-> Null, cache |-> cache, hits |-> hits, misses |-> misses + 1]
  ELSE IF now > MapGet(cache, k).expiresAt
    THEN [value |-> Null, cache |-> MapDelete(cache, k), hits |-> hits,
          misses |-> misses]
  ELSE [value |-> MapGet(cache, k).data, cache |-> cache, hits |-> hits + 1,
        misses |-> misses]

\* ---- get: the value returned and the state it leaves ----
CacheGet(k) ==
  IF ~config.enabled
    THEN [value |-> Null, cache |-> cache, hits |-> hits, misses |-> misses]
  ELSE IF ~MapHas(cache, k)
    THEN [value |-> Null, cache |-> cache, hits |-> hits, misses |-> misses + 1]
  ELSE IF now > MapGet(cache, k).expiresAt
    THEN [value |-> Null, cache |-> MapDelete(cache, k), hits |-> hits,
          misses |-> misses + 1]
  ELSE [value |-> MapGet(cache, k).data, cache |-> cache, hits |-> hits + 1,
        misses |-> misses]

\* why get(k) removes an entry, if it does
GetRemoves(k) == IF CacheGet(k).cache # cache THEN "expired" ELSE "none"

\* why set(k, ...) removes an entry, if it does
SetRemoves(k) ==
  IF config.enabled /\ Len(cache) >= config.maxSize /\ evictOldest(cache) # cache
    THEN "evicted"
    ELSE "none"

\* ---- getStats ----
getStats ==
  [hits |-> hits, misses |-> misses, size |-> Len(cache),
   hitRate |-> IF hits + misses > 0 THEN <<hits, hits + misses>> ELSE <<0, 1>>]

\* ---- cleanup ----
\* the sweep with the expiry test written `>=`
cleanupAtExpiry(c) == SelectSeq(c, LAMBDA e : ~(now >= e.expiresAt))

cleanup(c) == SelectSeq(c, LAMBDA e : ~(now > e.expiresAt))

\* ------------------------------------------------------------------------
\* The cache as a state machine: one action per public operation, the timer's
\* cleanup, the clock, and the steps of getOrSet around its await
\* ------------------------------------------------------------------------
InitKeyIdle == url = <<>> /\ key = <<>> /\ kpc = "off"

InitFetchIdle ==
  /\ fpc = "off" /\ target = "none" /\ attempt = 0 /\ ua = 0 /\ timeoutMs = 0
  /\ delays = <<>> /\ outcomes = <<>> /\ lastError = [cleaner |-> FALSE, what |-> "none"]
  /\ result = [ok |-> FALSE, code |-> "none", original |-> [cleaner |-> FALSE, what |-> "none"]]

\* headers.get(name) of a header the request does not carry
Absent == <<"NULL">>

\* DEFAULT_CONFIG of the AIDetector (customAIUserAgents stays empty)
DefaultDetector == [strictMode |-> TRUE, checkSuspicious |-> FALSE]

\* a request without headers and without a query string
NoRequest ==
  [userAgent |-> Absent, accept |-> Absent, xAiRequest |-> Absent,
   xBotType |-> Absent, xAiAgent |-> Absent, query |-> <<>>]

NoVerdict == [op |-> "none", isAI |-> FALSE, confidence |-> "none", service |-> Null]

\* the detector is not part of the run: no request, no verdict
InitDetectIdle ==
  /\ detector = DefaultDetector
  /\ request = "off"
  /\ verdict = "off"
  /\ dpc = "off"

\* no response yet; a response carries the fields the handlers set
NoDoc == [doc |-> "none", ir |-> Null]
NoResp ==
  [status |-> 0, kind |-> "none", error |-> "none", ir |-> Null,
   geoHTML |-> NoDoc, originalHTML |-> Null, optimized |-> FALSE]

NoReq == [route |-> "none", target |-> Absent, client |-> NoRequest, payload |-> "none"]

\* a string by what the code reads of it: whether it is null, and its length
NullText == [null |-> TRUE, len |-> 0]
NoArticle == [null |-> TRUE, title |-> NullText, content |-> NullText, textContent |-> NullText]
NoParse ==
  [ran |-> FALSE,
   result |-> [null |-> TRUE, title |-> NullText, content |-> NullText,
               textContent |-> NullText, length |-> NullText],
   article |-> NoArticle]

\* no method of the generators is under test
InitGenIdle == arg = "off" /\ out = "off" /\ gpc = "off"

\* the route handlers are not part of the run
InitRouteIdle ==
  /\ rpc = "off"
  /\ incoming = "off"
  /\ resp = "off"
  /\ reached = {}
  /\ parsed = "off"
  /\ generated = "off"
  /\ statusLog = {}

InitCache ==
  /\ config \in [ttl : {DefaultTTL}, maxSize : 1..MaxEntries, enabled : BOOLEAN]
  /\ cache = <<>>
  /\ hits = 0
  /\ misses = 0
  /\ now = 0
  /\ calls = [p \in Callers |-> Idle]
  /\ ret = [p \in Callers |-> Null]
  /\ overlapped = FALSE
  /\ setLog = [ok |-> TRUE, log |-> <<>>]
  /\ last = "none"

\* setLog after an operation other than set: the run of sets is over once the
\* map has been changed by anything else.
LogAfter(c) == IF c = cache THEN setLog ELSE NoLog

LogAfterSet(k, v) ==
  IF setLog.ok /\ Len(setLog.log) <= config.maxSize
       /\ \A i \in 1..Len(setLog.log) : setLog.log[i][1] # k
    THEN [ok |-> TRUE, log |-> Append(setLog.log, <<k, v>>)]
    ELSE NoLog

CanLookup == hits + misses < MaxLookups

Tick ==
  /\ now < MaxTicks * TickMs
  /\ now' = now + TickMs
  /\ last' = "none"
  /\ UNCHANGED <<keyVars, fetchVars, detectVars, routeVars, genVars, config, cache, hits, misses, calls, ret, overlapped, setLog>>

Get(k) ==
  /\ CanLookup
  /\ LET r == CacheGet(k)
     IN /\ cache' = r.cache
        /\ hits' = r.hits
        /\ misses' = r.misses
        /\ setLog' = LogAfter(r.cache)
  /\ last' = GetRemoves(k)
  /\ UNCHANGED <<keyVars, fetchVars, detectVars, routeVars, genVars, config, now, calls, ret, overlapped>>

\* has(key): this.get(key) !== null
Has(k) ==
  /\ CanLookup
  /\ LET r == CacheGet(k)
     IN /\ cache' = r.cache
        /\ hits' = r.hits
        /\ misses' = r.misses
        /\ setLog' = LogAfter(r.cache)
  /\ last' = GetRemoves(k)
  /\ UNCHANGED <<keyVars, fetchVars, detectVars, routeVars, genVars, config, now, calls, ret, overlapped>>

Set(k, v, ttl) ==
  /\ cache' = CacheSet(cache, k, v, ttl)
  /\ setLog' = LogAfterSet(k, v)
  /\ last' = SetRemoves(k)
  /\ UNCHANGED <<keyVars, fetchVars, detectVars, routeVars, genVars, config, hits, misses, now, calls, ret, overlapped>>

Delete(k) ==
  /\ cache' = MapDelete(cache, k)
  /\ setLog' = LogAfter(MapDelete(cache, k))
  /\ last' = (IF MapHas(cache, k) THEN "deleted" ELSE "none")
  /\ UNCHANGED <<keyVars, fetchVars, detectVars, routeVars, genVars, config, hits, misses, now, calls, ret, overlapped>>

Clear ==
  /\ cache' = <<>>
  /\ hits' = 0
  /\ misses' = 0
  /\ setLog' = [ok |-> TRUE, log |-> <<>>]
  /\ last' = (IF cache # <<>> THEN "cleared" ELSE "none")
  /\ UNCHANGED <<keyVars, fetchVars, detectVars, routeVars, genVars, config, now, calls, ret, overlapped>>

Cleanup ==
  /\ cache' = cleanup(cache)
  /\ setLog' = LogAfter(cleanup(cache))
  /\ last' = (IF cleanup(cache) # cache THEN "swept" ELSE "none")
  /\ UNCHANGED <<keyVars, fetchVars, detectVars, routeVars, genVars, config, hits, misses, now, calls, ret, overlapped>>

\* getOrSet up to its await: the lookup, and on a miss the call of factory()
GetOrSetBegin(p, kind, k, ttl) ==
  /\ calls[p] = Idle
  /\ CanLookup
  /\ LET r == CacheGet(k)
     IN /\ cache' = r.cache
        /\ hits' = r.hits
        /\ misses' = r.misses
        /\ setLog' = LogAfter(r.cache)
        /\ IF Truthy(r.value)   \* if (cached) return cached
             THEN /\ ret' = [ret EXCEPT ![p] = r.value]
                  /\ calls' = calls
                  /\ overlapped' = FALSE
             ELSE /\ calls' = [calls EXCEPT ![p] = [kind |-> kind, key |-> k, ttl |-> ttl]]
                  /\ ret' = ret
                  /\ overlapped' = \E q \in Callers \ {p} :
                                      calls[q] # Idle /\ calls[q].key = k
  /\ last' = GetRemoves(k)
  /\ UNCHANGED <<keyVars, fetchVars, detectVars, routeVars, genVars, config, now>>

GetOrSet(p, k, ttl) == GetOrSetBegin(p, "getOrSet", k, ttl)

\* getCachedIR(url, factory): irCache.getOrSet(Cache.generateKey(url), factory)
GetCachedIR(p, u) == GetOrSetBegin(p, "getCachedIR", generateKey(u), 0)

\* what a factory of the pending call can resolve to
FactoryValues(c) == IF c.kind = "getCachedIR" THEN IRValues ELSE Values

\* the factory resolved: this.set(key, data, ttl); return data
FactoryResolve(p, v) ==
  /\ calls[p] # Idle
  /\ v \in FactoryValues(calls[p])
  /\ cache' = CacheSet(cache, calls[p].key, v, calls[p].ttl)
  /\ ret' = [ret EXCEPT ![p] = v]
  /\ calls' = [calls EXCEPT ![p] = Idle]
  /\ setLog' = NoLog
  /\ last' = SetRemoves(calls[p].key)
  /\ UNCHANGED <<keyVars, fetchVars, detectVars, routeVars, genVars, config, hits, misses, now, overlapped>>

\* the factory rejected: the await throws, nothing after it runs
FactoryReject(p) ==
  /\ calls[p] # Idle
  /\ ret' = [ret EXCEPT ![p] = Err]
  /\ calls' = [calls EXCEPT ![p] = Idle]
  /\ last' = "none"
  /\ UNCHANGED <<keyVars, fetchVars, detectVars, routeVars, genVars, config, cache, hits, misses, now, overlapped, setLog>>

Init == InitCache /\ InitKeyIdle /\ InitFetchIdle /\ InitDetectIdle /\ InitRouteIdle /\ InitGenIdle

\* The synchronous API, the timer's cleanup and the clock.
Next ==
  \/ Tick
  \/ \E k \in Keys : Get(k)
  \/ \E k \in Keys : Has(k)
  \/ \E k \in Keys, w \in Writes : Set(k, w.value, w.ttl)
  \/ \E k \in Keys : Delete(k)
  \/ Clear
  \/ Cleanup

Spec == Init /\ [][Next]_vars

\* getOrSet(key, factory, ttl?) as called: every key without a ttl, one key
\* with htmlCache's
GetOrSetArgs ==
  {[key |-> k, ttl |-> 0] : k \in Keys}
    \cup {[key |-> <<"http://h/q">>, ttl |-> HtmlTTL]}

\* Concurrent getOrSet / getCachedIR calls over the same instance.
NextFlight ==
  \/ Tick
  \/ \E p \in Callers, a \in GetOrSetArgs : GetOrSet(p, a.key, a.ttl)
  \/ \E p \in Callers, u \in PageUrls : GetCachedIR(p, u)
  \/ \E p \in Callers, v \in Values \cup IRValues : FactoryResolve(p, v)
  \/ \E p \in Callers : FactoryReject(p)

SpecFlight == Init /\ [][NextFlight]_vars

\* ------------------------------------------------------------------------
\* Properties of the synchronous API (specification Spec)
\* ------------------------------------------------------------------------
\* what get(k) would return in the current state
Peek(k) == CacheGet(k).value

NoneExpired == \A i \in 1..Len(cache) : ~(now > cache[i].expiresAt)

\* c without its i-th entry
DropAt(c, i) == SubSeq(c, 1, i - 1) \o SubSeq(c, i + 1, Len(c))

\* C3: after maxSize + 1 distinct keys have been inserted by set in sequence,
\* with nothing expired, get of the earliest-inserted key returns absent and
\* get of each of the other maxSize keys returns its value.
C3_EvictsEarliest ==
  (config.enabled /\ setLog.ok /\ Len(setLog.log) = config.maxSize + 1 /\ NoneExpired)
    => /\ Peek(setLog.log[1][1]) = Null
       /\ \A i \in 2..Len(setLog.log) : Peek(setLog.log[i][1]) = setLog.log[i][2]

\* C4: a set on a full cache removes exactly one entry, one with the smallest
\* insertion timestamp, and a get or has that finds its entry never changes
\* which entry the next set removes.
C4_FifoEviction ==
  [][ /\ \A k \in Keys, w \in Writes :
           (config.enabled /\ Len(cache) >= config.maxSize /\ Set(k, w.value, w.ttl))
             => \E i \in 1..Len(cache) :
                  /\ \A j \in 1..Len(cache) : cache[i].timestamp <= cache[j].timestamp
                  /\ cache' = MapSet(DropAt(cache, i),
                                     [key |-> k, data |-> w.value, timestamp |-> now,
                                      expiresAt |-> now + (IF w.ttl # 0 THEN w.ttl ELSE config.ttl) * 1000])
      /\ \A k \in Keys :
           ((Get(k) \/ Has(k)) /\ MapHas(cache, k) /\ ~(now > MapGet(cache, k).expiresAt))
             => evictOldest(cache') = evictOldest(cache) ]_vars

\* C5: a get on a key whose entry has now > expiresAt returns absent, removes
\* that entry and counts one miss (hits unchanged); a get at now <= expiresAt
\* returns the value and counts one hit.
C5_LazyExpiry ==
  [][ \A k \in Keys :
        (MapHas(cache, k) /\ Get(k))
          => LET e == MapGet(cache, k)
             IN IF now > e.expiresAt
                  THEN /\ Peek(k) = Null
                       /\ cache' = SelectSeq(cache, LAMBDA x : x.key # k)
                       /\ misses' = misses + 1
                       /\ hits' = hits
                  ELSE /\ Peek(k) = e.data
                       /\ cache' = cache
                       /\ hits' = hits + 1
                       /\ misses' = misses ]_vars

\* a get found an expired entry after an earlier get had hit, and one entry
\* sits exactly at its expiresAt
C5_Witness ==
  /\ last = "expired"
  /\ hits >= 1
  /\ misses >= 1
  /\ \E i \in 1..Len(cache) : now = cache[i].expiresAt

\* ------------------------------------------------------------------------
\* Properties of getOrSet / getCachedIR (specification SpecFlight)
\* ------------------------------------------------------------------------
Pending(p) == calls[p] # Idle

\* caller p takes the lookup step of a getOrSet / getCachedIR call on key k
Begins(p, k) ==
  \/ \E ttl \in TTLArgs : GetOrSet(p, k, ttl)
  \/ \E u \in PageUrls : generateKey(u) = k /\ GetCachedIR(p, u)

\* C1: no single-flight deduplication. A call that starts on an uncached key
\* while another call awaits its factory for the same key counts a miss and
\* invokes its own factory, the other call stays pending, and each factory
\* that resolves overwrites the entry, so the last to resolve wins.
C1_NoSingleFlight ==
  [][ /\ \A p \in Callers, k \in Keys :
           ( /\ config.enabled
             /\ ~Pending(p)
             /\ now' = now
             /\ \E q \in Callers \ {p} : Pending(q) /\ calls[q].key = k
             /\ Peek(k) = Null
             /\ Begins(p, k) )
             => /\ misses' = misses + 1
                /\ hits' = hits
                /\ \A q \in Callers : calls'[q] # Idle /\ calls'[q].key = k
      /\ \A p \in Callers, v \in Values \cup IRValues :
           (config.enabled /\ Pending(p) /\ ~Pending(p)' /\ FactoryResolve(p, v))
             => /\ MapHas(cache', calls[p].key)
                /\ MapGet(cache', calls[p].key).data = v
                /\ ret'[p] = v ]_vars

\* two overlapping calls for one key both missed and both resolved, with
\* different values, and the entry holds one of them
C1_Witness ==
  /\ overlapped
  /\ misses = 2
  /\ hits = 0
  /\ \A p \in Callers : ~Pending(p)
  /\ ret[1] \in IRValues
  /\ ret[2] \in IRValues
  /\ ret[1] # ret[2]
  /\ Len(cache) = 1
  /\ cache[1].data \in {ret[1], ret[2]}

\* C2: a getOrSet call for a key whose entry an earlier getOrSet call stored
\* (and which has not expired) does not invoke the factory: it returns the
\* stored value and counts one hit.
C2_SecondCallHits ==
  [][ \A p \in Callers, k \in Keys, ttl \in TTLArgs :
        ( /\ GetOrSet(p, k, ttl)
          /\ MapHas(cache, k)
          /\ ~(now > MapGet(cache, k).expiresAt) )
          => /\ ~Pending(p)'
             /\ ret'[p] = MapGet(cache, k).data
             /\ hits' = hits + 1 ]_vars

\* C7 as stated: a getCachedIR call that misses invokes the factory and leaves
\* the map as it is; a rejection propagates and leaves the map as it is; a
\* resolution is stored under the key with expiresAt = write time + 3600 s.
C7_MissKeepsMap ==
  [][ \A p \in Callers :
        /\ \A u \in PageUrls :
             (GetCachedIR(p, u) /\ config.enabled /\ Peek(generateKey(u)) = Null)
               => /\ Pending(p)'
                  /\ calls'[p].key = generateKey(u)
                  /\ cache' = cache
        /\ (Pending(p) /\ calls[p].kind = "getCachedIR" /\ FactoryReject(p))
             => /\ cache' = cache
                /\ ret'[p] = Err
                /\ ~Pending(p)'
        /\ \A v \in IRValues :
             (Pending(p) /\ calls[p].kind = "getCachedIR" /\ FactoryResolve(p, v)
                /\ config.enabled)
               => /\ MapHas(cache', calls[p].key)
                  /\ MapGet(cache', calls[p].key) =
                       [key |-> calls[p].key, data |-> v, timestamp |-> now,
                        expiresAt |-> now + DefaultTTL * 1000]
                  /\ ret'[p] = v
                  /\ ~Pending(p)' ]_vars

\* C7 amended: as C7, except that the lookup of the missing call removes the
\* key's entry when that entry has expired (and changes nothing else).
C7_MissDropsOnlyExpired ==
  [][ \A p \in Callers :
        /\ \A u \in PageUrls :
             (config.enabled /\ misses' = misses + 1 /\ GetCachedIR(p, u)
                /\ Peek(generateKey(u)) = Null)
               => /\ Pending(p)'
                  /\ calls'[p].key = generateKey(u)
                  /\ cache' = SelectSeq(cache, LAMBDA e : e.key # generateKey(u))
                  /\ (MapHas(cache, generateKey(u))
                        => now > MapGet(cache, generateKey(u)).expiresAt)
        /\ (Pending(p) /\ calls[p].kind = "getCachedIR" /\ FactoryReject(p))
             => /\ cache' = cache
                /\ ret'[p] = Err
                /\ ~Pending(p)'
        /\ \A v \in IRValues :
             (Pending(p) /\ calls[p].kind = "getCachedIR" /\ FactoryResolve(p, v)
                /\ config.enabled)
               => /\ MapHas(cache', calls[p].key)
                  /\ MapGet(cache', calls[p].key) =
                       [key |-> calls[p].key, data |-> v, timestamp |-> now,
                        expiresAt |-> now + DefaultTTL * 1000]
                  /\ ret'[p] = v
                  /\ ~Pending(p)' ]_vars

\* a getCachedIR call missed on an expired entry, which its lookup removed,
\* and its factory then rejected: the key has no entry
C7_Witness ==
  \E p \in Callers :
    /\ ~overlapped
    /\ ret[p] = Err
    /\ cache = <<>>
    /\ misses = 2
    /\ hits = 0
    /\ now > 0
    /\ \A q \in Callers : ~Pending(q)
    /\ \E q \in Callers \ {p} : ret[q] \in IRValues

\* ------------------------------------------------------------------------
\* Cache.generateKey applied to every input string (specification SpecKey)
\* ------------------------------------------------------------------------
InitCacheIdle ==
  /\ config = [ttl |-> DefaultTTL, maxSize |-> 1, enabled |-> TRUE]
  /\ cache = <<>>
  /\ hits = 0
  /\ misses = 0
  /\ now = 0
  /\ calls = [p \in Callers |-> Idle]
  /\ ret = [p \in Callers |-> Null]
  /\ overlapped = FALSE
  /\ setLog = NoLog
  /\ last = "none"

InitKey ==
  /\ url \in UrlStrings
  /\ key = <<>>
  /\ kpc = "start"
  /\ InitCacheIdle
  /\ InitFetchIdle
  /\ InitDetectIdle
  /\ InitRouteIdle /\ InitGenIdle

GenerateKey ==
  /\ kpc = "start"
  /\ key' = generateKey(url)
  /\ kpc' = "done"
  /\ UNCHANGED <<url, cacheVars, fetchVars, detectVars, routeVars, genVars>>

NextKey == GenerateKey

SpecKey == InitKey /\ [][NextKey]_vars

\* the tracking parameters the claim names: fbclid, _t and the utm_ family
IsTracking(name) ==
  name \in {"fbclid", "_t", "utm_source", "utm_medium", "utm_campaign", "utm_term"}

NonTracking(ps) == SelectSeq(ps, LAMBDA q : ~IsTracking(q.name))

DifferOnlyInTracking(u1, u2) ==
  /\ WellFormed(u1)
  /\ WellFormed(u2)
  /\ Head(u1) = Head(u2)
  /\ NonTracking(Tail(u1)) = NonTracking(Tail(u2))

\* C6: generateKey removes every parameter named fbclid, _t or utm_*, so two
\* well-formed URLs that differ only in such parameters get the same key, and
\* a malformed URL maps to the raw string.
C6_TrackingStripped ==
  kpc = "done" =>
    /\ WellFormed(url) => \A i \in 2..Len(key) : ~IsTracking(key[i].name)
    /\ \A u2 \in UrlStrings : DifferOnlyInTracking(url, u2) => generateKey(u2) = key
    /\ ~WellFormed(url) => key = url

\* ------------------------------------------------------------------------
\* HTMLCleaner.clean and fetchHTMLWithRetry (specification SpecFetch)
\* ------------------------------------------------------------------------
maxRetries == 3

\* kinds of url given to clean(): what `new URL(url)` makes of it
Targets == {"http", "https", "ftp", "malformed"}

\* USER_AGENTS: index 0 is the declared bot, 1..3 are browsers
BrowserAgents == 1..3

\* What one fetch attempt can end in: a response (status, content-type, and
\* how response.text() ends), the abort of the timeout, or a network error
\* thrown by fetch. The body of a response whose headers came in time is read
\* after clearTimeout: it arrives in time ("ok"), fails, arrives only after
\* timeoutMs have passed since the request ("late"), or never ends ("never").
Reply(kind, status, ctype, body) ==
  [kind |-> kind, status |-> status, ctype |-> ctype, body |-> body]

Replies ==
  { Reply("response", 200, "text/html", "ok"),
    Reply("response", 200, "text/html", "fails"),
    Reply("response", 200, "text/html", "late"),
    Reply("response", 200, "text/html", "never"),
    Reply("response", 200, "application/json", "ok"),
    Reply("response", 200, "none", "ok"),
    Reply("response", 304, "text/html", "ok"),
    Reply("response", 400, "text/html", "ok"),
    Reply("response", 403, "text/html", "ok"),
    Reply("response", 404, "text/html", "ok"),
    Reply("response", 429, "text/html", "ok"),
    Reply("response", 500, "text/html", "ok"),
    Reply("timeout", 0, "none", "none"),
    Reply("network", 0, "none", "none") }

\* An error: HTMLCleanerError carries a code; any other Error is "Error".
CleanerError(code) == [cleaner |-> TRUE, what |-> code]
PlainError(what) == [cleaner |-> FALSE, what |-> what]
NoError == [cleaner |-> FALSE, what |-> "none"]

\* response.ok
ResponseOk(r) == r.status >= 200 /\ r.status <= 299

\* contentType?.includes("text/html")
IsHtmlType(ctype) == ctype = "text/html"

\* The try block of one attempt: "html" when it returns the page, else the
\* error it throws.
AttemptThrows(r) ==
  IF r.kind = "timeout" THEN PlainError("AbortError")
  ELSE IF r.kind = "network" THEN PlainError("TypeError")
  ELSE IF ResponseOk(r)
    THEN IF ~IsHtmlType(r.ctype) THEN CleanerError("INVALID_CONTENT_TYPE")
         ELSE IF r.body = "fails" THEN PlainError("TypeError")
         ELSE NoError
  ELSE IF r.status = 404 THEN CleanerError("NOT_FOUND")
  ELSE IF r.status >= 400 /\ r.status < 500 /\ r.status # 429 /\ r.status # 403
    THEN CleanerError("HTTP_ERROR")
  ELSE PlainError("HTTP")

NoResult == [ok |-> FALSE, code |-> "none", original |-> NoError]

Failed(code, original) == [ok |-> FALSE, code |-> code, original |-> original]

RECURSIVE Pow2(_)
Pow2(n) == IF n = 0 THEN 1 ELSE 2 * Pow2(n - 1)

InitFetch ==
  /\ fpc = "init"
  /\ target \in Targets
  /\ attempt = 0
  /\ ua = 0
  /\ timeoutMs = 0
  /\ delays = <<>>
  /\ outcomes = <<>>
  /\ lastError = NoError
  /\ result = NoResult
  /\ InitCacheIdle
  /\ InitKeyIdle
  /\ InitDetectIdle
  /\ InitRouteIdle /\ InitGenIdle

\* clean(): validateURL
ValidateURL ==
  /\ fpc = "init"
  /\ IF target = "malformed"
       THEN fpc' = "done" /\ result' = Failed("INVALID_URL", PlainError("TypeError"))
     ELSE IF target \notin {"http", "https"}
       THEN fpc' = "done" /\ result' = Failed("INVALID_PROTOCOL", NoError)
     ELSE fpc' = "request" /\ result' = result
  /\ UNCHANGED <<target, attempt, ua, timeoutMs, delays, outcomes, lastError>>
  /\ UNCHANGED <<cacheVars, keyVars, detectVars, routeVars, genVars>>

\* One iteration of the retry loop up to its backoff wait: the request, the
\* handling of the response, and the catch block.
Request(r, agent) ==
  /\ fpc = "request"
  /\ attempt <= maxRetries
  /\ ua' = (IF attempt = 0 THEN 0 ELSE agent)
  /\ timeoutMs' = 10000 + attempt * 2000
  /\ outcomes' = Append(outcomes, r)
  /\ LET error == AttemptThrows(r)
     IN IF error = NoError /\ r.body = "never"
          THEN \* await response.text() stays pending: no timer is armed
               /\ fpc' = "reading"
               /\ UNCHANGED <<lastError, result, delays, attempt>>
        ELSE IF error = NoError
          THEN \* return await response.text()
               /\ fpc' = "parse"
               /\ UNCHANGED <<lastError, result, delays, attempt>>
        ELSE IF attempt = maxRetries
          THEN \* break, then the throw after the loop
               /\ lastError' = error
               /\ fpc' = "done"
               /\ result' = Failed("FETCH_FAILED", error)
               /\ UNCHANGED <<delays, attempt>>
        ELSE IF error.cleaner
          THEN \* throw error; clean() rethrows an HTMLCleanerError as it is
               /\ lastError' = error
               /\ fpc' = "done"
               /\ result' = Failed(error.what, NoError)
               /\ UNCHANGED <<delays, attempt>>
        ELSE /\ lastError' = error
             /\ fpc' = "backoff"
             /\ UNCHANGED <<result, delays, attempt>>
  /\ UNCHANGED target
  /\ UNCHANGED <<cacheVars, keyVars, detectVars, routeVars, genVars>>

\* the backoff wait is over: the loop goes on with the next attempt
Backoff ==
  /\ fpc = "backoff"
  /\ delays' = Append(delays, 1000 * Pow2(attempt))
  /\ attempt' = attempt + 1
  /\ fpc' = "request"
  /\ UNCHANGED <<target, ua, timeoutMs, outcomes, lastError, result>>
  /\ UNCHANGED <<cacheVars, keyVars, detectVars, routeVars, genVars>>

\* parseWithReadability and the end of clean()
ParseOutcomes ==
  {"article", "null", "EMPTY_HTML", "PARSE_ERROR", "READABILITY_ERROR", "UNKNOWN_ERROR"}

Parse(o) ==
  /\ fpc = "parse"
  /\ fpc' = "done"
  /\ result' = IF o = "article" THEN [ok |-> TRUE, code |-> "none", original |-> NoError]
               ELSE IF o = "null" THEN Failed("PARSE_FAILED", NoError)
               ELSE Failed(o, NoError)
  /\ UNCHANGED <<target, attempt, ua, timeoutMs, delays, outcomes, lastError>>
  /\ UNCHANGED <<cacheVars, keyVars, detectVars, routeVars, genVars>>

NextFetch ==
  \/ ValidateURL
  \/ \E r \in Replies, agent \in BrowserAgents : Request(r, agent)
  \/ Backoff
  \/ \E o \in ParseOutcomes : Parse(o)

SpecFetch == InitFetch /\ [][NextFetch]_vars

\* every await that can resume does resume
SpecFetchLive == InitFetch /\ [][NextFetch]_vars /\ WF_vars(NextFetch)

\* the replies the claims call permanent, and those they call retryable
Permanent4xx(r) ==
  r.kind = "response" /\ r.status >= 400 /\ r.status < 500 /\ r.status \notin {429, 403}

Retryable(r) ==
  \/ r.kind \in {"timeout", "network"}
  \/ r.kind = "response" /\ (r.status >= 500 \/ r.status \in {429, 403})
  \/ r.kind = "response" /\ ResponseOk(r) /\ IsHtmlType(r.ctype) /\ r.body = "fails"

NonHtml2xx(r) == r.kind = "response" /\ ResponseOk(r) /\ r.ctype # "text/html"

\* C8: whichever attempt receives 404 or another 4xx except 429/403, no
\* further request is issued, no backoff is waited, and clean() fails with
\* that response's code (NOT_FOUND for 404, HTTP_ERROR otherwise); a 404 on
\* the first attempt means exactly one request.
C8_PermanentFailsAtOnce ==
  \A i \in 1..Len(outcomes) :
    Permanent4xx(outcomes[i])
      => /\ Len(outcomes) = i
         /\ Len(delays) = i - 1
         /\ fpc = "done"
         /\ result.code = (IF outcomes[i].status = 404 THEN "NOT_FOUND" ELSE "HTTP_ERROR")

\* C9: at most 4 requests are issued; an attempt before the 4th that ends in
\* 5xx, 429, 403, a timeout or a network error is followed by another one;
\* the fetcher fails with FETCH_FAILED exactly when all 4 attempts ended in
\* such a failure, and then wraps the 4th attempt's error.
C9_RetryUntilExhausted ==
  /\ Len(outcomes) <= maxRetries + 1
  /\ \A i \in 1..Len(outcomes) :
       (i <= maxRetries /\ Retryable(outcomes[i]))
         => (Len(outcomes) > i \/ fpc \in {"backoff", "request"})
  /\ fpc = "done"
       => /\ result.code = "FETCH_FAILED"
               <=> /\ Len(outcomes) = maxRetries + 1
                   /\ \A i \in 1..Len(outcomes) : Retryable(outcomes[i])
          /\ result.code = "FETCH_FAILED"
               => result.original = AttemptThrows(outcomes[maxRetries + 1])

\* C10: whichever attempt receives a 2xx response whose content-type does not
\* contain text/html, no further attempt is made and the failure is
\* INVALID_CONTENT_TYPE, never FETCH_FAILED.
C10_NonHtmlFailsAtOnce ==
  \A i \in 1..Len(outcomes) :
    NonHtml2xx(outcomes[i])
      => /\ Len(outcomes) = i
         /\ fpc = "done"
         /\ result.code = "INVALID_CONTENT_TYPE"

\* ------------------------------------------------------------------------
\* AIDetector: isAI, getDetectionDetails, getAIServiceType (specification
\* SpecDetect). A header value is a string, i.e. a sequence of tokens cut at
\* every place where one of the keywords below can begin or end.
\* ------------------------------------------------------------------------

\* the tokens that are not already lower case
CasePairs ==
  { <<"Chat", "chat">>, <<"GPT", "gpt">>, <<"User", "user">>, <<"Bot", "bot">>,
    <<"BOT", "bot">>, <<"OAI", "oai">>, <<"Search", "search">>,
    <<"Claude", "claude">>, <<"Web", "web">>, <<"Google", "google">>,
    <<"Extended", "extended">>, <<"Other", "other">>,
    <<"CloudVertex", "cloudvertex">>, <<"Bing", "bing">>,
    <<"Perplexity", "perplexity">>, <<"Facebook", "facebook">>,
    <<"Amazon", "amazon">>, <<"Apple", "apple">>, <<"Bytespider", "bytespider">>,
    <<"CC", "cc">>, <<"Imagesift", "imagesift">>, <<"Diff", "diff">>,
    <<"You", "you">>, <<"LinkedIn", "linkedin">>, <<"Gemini", "gemini">>,
    <<"Bard", "bard">>, <<"Mozilla", "mozilla">>, <<"Chrome", "chrome">>,
    <<"Headless", "headless">>, <<"Feedfetcher", "feedfetcher">> }

LowerTable ==
  [t \in {p[1] : p \in CasePairs} |-> (CHOOSE p \in CasePairs : p[1] = t)[2]]

ToLowerToken(t) == IF t \in DOMAIN LowerTable THEN LowerTable[t] ELSE t

\* String.prototype.toLowerCase
toLowerCase(s) == [i \in 1..Len(s) |-> ToLowerToken(s[i])]

\* String.prototype.includes
includes(s, w) == \E i \in 0..(Len(s) - Len(w)) : SubSeq(s, i + 1, i + Len(w)) = w

AI_USER_AGENTS ==
  << <<"Chat", "GPT", "-", "User">>, <<"OAI", "-", "Search", "Bot">>, <<"GPT", "Bot">>,
     <<"Claude", "Bot">>, <<"Claude", "-", "User">>, <<"claude", "-", "web">>,
     <<"anthropic", "-", "ai">>,
     <<"Google", "-", "Extended">>, <<"Google", "Other">>,
     <<"Google", "-", "CloudVertex", "Bot">>,
     <<"Bing", "Bot">>,
     <<"Perplexity", "Bot">>, <<"Perplexity", "-", "User">>,
     <<"meta", "-", "externalagent">>, <<"meta", "-", "externalfetcher">>,
     <<"Facebook", "Bot">>, <<"facebookexternalhit">>,
     <<"Amazon", "bot">>,
     <<"Apple", "bot">>, <<"Apple", "bot", "-", "Extended">>,
     <<"Bytespider">>,
     <<"CC", "Bot">>, <<"cohere", "-", "ai">>, <<"Imagesift", "Bot">>,
     <<"Diff", "bot">>, <<"You", "Bot">>, <<"LinkedIn", "Bot">> >>

SUSPICIOUS_USER_AGENTS == << <<"python", "-", "requests">>, <<"curl">>, <<"wget">> >>

browserKeywords ==
  << <<"mozilla">>, <<"chrome">>, <<"safari">>, <<"firefox">>, <<"edge">>, <<"opera">> >>

\* request.headers.get(name)?.toLowerCase() || ""
HeaderLower(v) == IF v = Absent THEN <<>> ELSE toLowerCase(v)

\* keyword.toLowerCase() of every keyword of a list
Lowered(list) == [i \in 1..Len(list) |-> toLowerCase(list[i])]
LoweredAI == Lowered(AI_USER_AGENTS)
LoweredSuspicious == Lowered(SUSPICIOUS_USER_AGENTS)

\* some keyword of the lower-cased list occurs in the lower-cased string s
SomeIncluded(s, list) == \E i \in 1..Len(list) : includes(s, list[i])

isBrowserUserAgent(userAgent) ==
  LET hasBrowser == \E i \in 1..Len(browserKeywords) : includes(userAgent, browserKeywords[i])
      isHeadless == includes(userAgent, <<"headless">>)
  IN hasBrowser /\ ~isHeadless

\* "true" = surely AI, "false" = surely not, "null" = undecided
checkUserAgent(cfg, req) ==
  LET userAgent == HeaderLower(req.userAgent)
  IN IF userAgent = <<>> THEN "false"
     ELSE IF SomeIncluded(userAgent, LoweredAI) THEN "true"
     ELSE IF cfg.checkSuspicious /\ SomeIncluded(userAgent, LoweredSuspicious) THEN "null"
     ELSE IF isBrowserUserAgent(userAgent) THEN "false"
     ELSE "false"

checkAcceptHeader(req) ==
  LET accept == HeaderLower(req.accept)
      prefersStructured ==
        \/ includes(accept, <<"application/json">>)
        \/ includes(accept, <<"application/ld+json">>)
        \/ (includes(accept, <<"text/plain">>) /\ ~includes(accept, <<"text/html">>))
      noHTML == ~includes(accept, <<"text/html">>)
  IN prefersStructured /\ noHTML

checkCustomHeaders(req) ==
  IF req.xAiRequest = <<"true">> \/ req.xAiRequest = <<"1">> THEN TRUE
  ELSE IF req.xBotType = <<"ai">> \/ req.xBotType = <<"llm">> THEN TRUE
  ELSE IF req.xAiAgent # Absent /\ TruthyString(req.xAiAgent) THEN TRUE   \* if (aiAgent)
  ELSE FALSE

\* URLSearchParams.get: the value of the first parameter of that name, or null
SearchParamsGet(ps, name) ==
  IF \E i \in 1..Len(ps) : ps[i].name = name
    THEN ps[CHOOSE i \in 1..Len(ps) :
              /\ ps[i].name = name
              /\ \A j \in 1..(i - 1) : ps[j].name # name].value
    ELSE Null

checkQueryParams(req) ==
  IF SearchParamsGet(req.query, "ai") = "true" THEN TRUE
  ELSE IF SearchParamsGet(req.query, "bot") = "1" THEN TRUE
  ELSE IF SearchParamsGet(req.query, "format") = "geo" THEN TRUE
  ELSE IF SearchParamsGet(req.query, "geo") = "1" THEN TRUE
  ELSE FALSE

\* isAI with the Accept step not gated by the mode
isAIAcceptUngated(cfg, req) ==
  LET uaResult == checkUserAgent(cfg, req)
  IN IF uaResult = "true" THEN TRUE
     ELSE IF cfg.strictMode /\ uaResult = "false"
       THEN checkCustomHeaders(req) \/ checkQueryParams(req)
     ELSE IF checkCustomHeaders(req) THEN TRUE
     ELSE IF checkQueryParams(req) THEN TRUE
     ELSE IF checkAcceptHeader(req) THEN TRUE
     ELSE FALSE

isAI(cfg, req) ==
  LET uaResult == checkUserAgent(cfg, req)
  IN IF uaResult = "true" THEN TRUE
     ELSE IF cfg.strictMode /\ uaResult = "false"
       THEN checkCustomHeaders(req) \/ checkQueryParams(req)
     ELSE IF checkCustomHeaders(req) THEN TRUE
     ELSE IF checkQueryParams(req) THEN TRUE
     ELSE IF ~cfg.strictMode /\ checkAcceptHeader(req) THEN TRUE
     ELSE FALSE

\* getDetectionDetails: the fields the callers read
getDetectionDetails(cfg, req) ==
  LET uaResult == checkUserAgent(cfg, req)
      c1 == IF uaResult = "true" THEN "high"
            ELSE IF uaResult = "null" THEN "medium"
            ELSE "low"
      c2 == IF checkCustomHeaders(req) THEN "high" ELSE c1
      c3 == IF checkQueryParams(req) THEN "high" ELSE c2
      c4 == IF checkAcceptHeader(req) /\ c3 = "low" THEN "medium" ELSE c3
  IN [isAI |-> isAI(cfg, req), confidence |-> c4]

\* getAIServiceType: the provider label, or null
getAIServiceType(req) ==
  LET userAgent == HeaderLower(req.userAgent)
  IN IF includes(userAgent, <<"gpt", "bot">>) \/ includes(userAgent, <<"chat", "gpt">>)
       THEN "OpenAI"
     ELSE IF includes(userAgent, <<"claude">>) \/ includes(userAgent, <<"anthropic">>)
       THEN "Anthropic"
     ELSE IF \/ includes(userAgent, <<"google", "-", "extended">>)
             \/ includes(userAgent, <<"gemini">>)
             \/ includes(userAgent, <<"bard">>)
       THEN "Google"
     ELSE IF includes(userAgent, <<"perplexity">>) THEN "Perplexity"
     ELSE IF includes(userAgent, <<"you", "bot">>) THEN "You.com"
     ELSE IF includes(userAgent, <<"apple", "bot", "-", "extended">>) THEN "Apple"
     ELSE Null

\* The User-Agent keywords of the README's table of supported AI User-Agents
ReadmeKeywords ==
  { <<"Chat", "GPT", "-", "User">>, <<"GPT", "Bot">>, <<"OAI", "-", "Search", "Bot">>,
    <<"Claude", "-", "Web">>, <<"anthropic", "-", "ai">>, <<"Claude", "Bot">>,
    <<"Claude", "-", "User">>,
    <<"Google", "-", "Extended">>, <<"Gemini">>, <<"Google", "Other">>,
    <<"Google", "-", "CloudVertex", "Bot">>,
    <<"Perplexity", "Bot">>, <<"Perplexity", "-", "User">>,
    <<"You", "Bot">>,
    <<"Apple", "bot", "-", "Extended">>, <<"Apple", "bot">>,
    <<"Bing", "Bot">>,
    <<"meta", "-", "externalagent">>, <<"meta", "-", "externalfetcher">>,
    <<"Facebook", "Bot">>, <<"facebookexternalhit">>,
    <<"Amazon", "bot">>, <<"Bytespider">>, <<"CC", "Bot">>, <<"cohere", "-", "ai">>,
    <<"Diff", "bot">>, <<"LinkedIn", "Bot">>, <<"Imagesift", "Bot">> }

\* User-Agent headers that contain no README keyword, or more than the keyword
BrowserUA == <<"Mozilla", "/", "5.0", " ", "Chrome", "/", "120">>
OtherAgents ==
  { Absent, <<>>, BrowserUA,
    <<"Mozilla", "/", "5.0", " ", "Headless", "Chrome", "/", "120">>,
    <<"Mozilla", "/", "5.0", " ", "GPT", "Bot", "/", "1.0">>,
    <<"GPT", "BOT">>, <<"Bard">>, <<"Claude", "/", "1.0">>,
    <<"curl", "/", "8.0">>, <<"python", "-", "requests", "/", "2.31">>,
    <<"Feedfetcher">> }

Accepts ==
  { Absent, <<"text/html">>, <<"application/json">>,
    <<"text/html", ",", "application/json">>, <<"text/plain">> }

\* query strings of request.url
QueryParam(n, v) == [name |-> n, value |-> v]
Queries ==
  { <<>>, <<QueryParam("ai", "true")>>, <<QueryParam("ai", "false")>>,
    <<QueryParam("bot", "1")>>, <<QueryParam("format", "geo")>>,
    <<QueryParam("geo", "1")>>, <<QueryParam("format", "json")>>,
    <<QueryParam("ai", "false"), QueryParam("ai", "true")>> }

\* Requests that differ in User-Agent and Accept only, and requests of a few
\* User-Agents with every combination of the override headers and the query.
Requests ==
  [userAgent : ReadmeKeywords \cup OtherAgents, accept : Accepts,
   xAiRequest : {Absent}, xBotType : {Absent}, xAiAgent : {Absent}, query : {<<>>}]
  \cup
  [userAgent : {Absent, BrowserUA, <<"GPT", "Bot">>, <<"curl", "/", "8.0">>},
   accept : {Absent, <<"text/html">>, <<"application/json">>},
   xAiRequest : {Absent, <<"true">>, <<"1">>, <<"0">>},
   xBotType : {Absent, <<"ai">>, <<"llm">>, <<"human">>},
   xAiAgent : {Absent, <<>>, <<"agent">>},
   query : Queries]

InitDetect ==
  /\ detector \in [strictMode : BOOLEAN, checkSuspicious : BOOLEAN]
  /\ request \in Requests
  /\ verdict = NoVerdict
  /\ dpc = "start"
  /\ InitCacheIdle
  /\ InitKeyIdle
  /\ InitFetchIdle
  /\ InitRouteIdle /\ InitGenIdle

IsAI ==
  /\ dpc = "start"
  /\ verdict' = [NoVerdict EXCEPT !.op = "isAI", !.isAI = isAI(detector, request)]
  /\ dpc' = "done"
  /\ UNCHANGED <<detector, request, cacheVars, keyVars, fetchVars, routeVars, genVars>>

GetDetectionDetails ==
  /\ dpc = "start"
  /\ LET d == getDetectionDetails(detector, request)
     IN verdict' = [NoVerdict EXCEPT !.op = "details", !.isAI = d.isAI,
                                     !.confidence = d.confidence]
  /\ dpc' = "done"
  /\ UNCHANGED <<detector, request, cacheVars, keyVars, fetchVars, routeVars, genVars>>

GetAIServiceType ==
  /\ dpc = "start"
  /\ verdict' = [NoVerdict EXCEPT !.op = "service", !.service = getAIServiceType(request)]
  /\ dpc' = "done"
  /\ UNCHANGED <<detector, request, cacheVars, keyVars, fetchVars, routeVars, genVars>>

NextDetect ==
  \/ IsAI
  \/ GetDetectionDetails
  \/ GetAIServiceType

SpecDetect == InitDetect /\ [][NextDetect]_vars

\* ---- claims about the classifier ----

\* Signal 1: the User-Agent contains, case-insensitively, an allow-list token
UAHasAIToken(req) ==
  /\ req.userAgent # Absent
  /\ SomeIncluded(toLowerCase(req.userAgent), LoweredAI)

\* Signal 2: an explicit override header or query parameter is present
OverrideQueries ==
  { QueryParam("ai", "true"), QueryParam("bot", "1"),
    QueryParam("format", "geo"), QueryParam("geo", "1") }

OverridePresent(req) ==
  \/ req.xAiRequest \in {<<"true">>, <<"1">>}
  \/ req.xBotType \in {<<"ai">>, <<"llm">>}
  \/ req.xAiAgent # Absent
  \/ \E i \in 1..Len(req.query) : req.query[i] \in OverrideQueries

\* C11: isAI returns true, in strict and in non-strict mode, whenever the
\* User-Agent contains an allow-list token and whenever an explicit override
\* (x-ai-request true/1, x-bot-type ai/llm, x-ai-agent present, query ai=true,
\* bot=1, format=geo, geo=1) is present, whatever the User-Agent.
C11_SignalsConclusive ==
  (verdict.op = "isAI" /\ (UAHasAIToken(request) \/ OverridePresent(request)))
    => verdict.isAI

\* C12: under strict mode, for every value of checkSuspicious, isAI = true
\* implies that the User-Agent matched the allow-list or an explicit override
\* was present: the Accept header never decides.
C12_StrictIgnoresAccept ==
  (verdict.op = "isAI" /\ detector.strictMode /\ verdict.isAI)
    => (UAHasAIToken(request) \/ OverridePresent(request))

\* isAI ran in strict mode on a request whose Accept header prefers structured
\* data and whose User-Agent is suspicious (undecided), and answered false
C12_Witness ==
  /\ verdict.op = "isAI"
  /\ detector.strictMode
  /\ detector.checkSuspicious
  /\ checkUserAgent(detector, request) = "null"
  /\ checkAcceptHeader(request)
  /\ ~OverridePresent(request)
  /\ ~verdict.isAI

\* a User-Agent with a browser token and no headless marker
BrowserLike(req) ==
  /\ req.userAgent # Absent
  /\ \E i \in 1..Len(browserKeywords) : includes(toLowerCase(req.userAgent), browserKeywords[i])
  /\ ~includes(toLowerCase(req.userAgent), <<"headless">>)

\* C13: for a request whose User-Agent has a browser token, no headless marker
\* and no AI token, and that carries no override, isAI is false in every
\* configuration, whatever its Accept header.
C13_BrowserNeverAI ==
  (verdict.op = "isAI" /\ BrowserLike(request) /\ ~UAHasAIToken(request)
     /\ ~OverridePresent(request))
    => ~verdict.isAI

\* the User-Agent is suspicious: the detector checks for it and finds a token
SuspiciousUA(cfg, req) ==
  /\ cfg.checkSuspicious
  /\ req.userAgent # Absent
  /\ ~UAHasAIToken(req)
  /\ SomeIncluded(toLowerCase(req.userAgent), LoweredSuspicious)

\* C14: getDetectionDetails returns confidence high exactly when Signal 1 or
\* Signal 2 matched, medium exactly when neither matched but the User-Agent is
\* suspicious or the Accept signal matched, and low otherwise; its isAI field
\* equals isAI of the same request.
C14_Confidence ==
  verdict.op = "details" =>
    LET strong == UAHasAIToken(request) \/ OverridePresent(request)
        weak == SuspiciousUA(detector, request) \/ checkAcceptHeader(request)
    IN /\ verdict.confidence = "high" <=> strong
       /\ verdict.confidence = "medium" <=> (~strong /\ weak)
       /\ verdict.confidence = "low" <=> (~strong /\ ~weak)
       /\ verdict.isAI = isAI(detector, request)

\* C15: getAIServiceType returns a provider label only for a User-Agent the
\* allow-list matches, and null for every User-Agent it does not match.
C15_LabelOnlyIfMatched ==
  verdict.op = "service" =>
    /\ verdict.service # Null => checkUserAgent(detector, request) = "true"
    /\ ~UAHasAIToken(request) => verdict.service = Null

\* C16: under the default configuration, a User-Agent in which a keyword of
\* the README's table occurs makes isAI true with no other signal present.
C16_ReadmeKeywordsDetected ==
  (/\ verdict.op = "isAI"
   /\ detector = DefaultDetector
   /\ request.userAgent # Absent
   /\ \E kw \in ReadmeKeywords : includes(toLowerCase(request.userAgent), toLowerCase(kw))
   /\ ~OverridePresent(request)
   /\ ~checkAcceptHeader(request))
    => verdict.isAI

\* ------------------------------------------------------------------------
\* The route handlers GET /api/geo, POST /api/parse and POST /api/generate
\* over irCache, one request at a time (specification SpecRoute)
\* ------------------------------------------------------------------------
IrMaxSize == 1000      \* irCache's maxSize
MinTextLength == 50    \* shortest text convertToStrictType / validateArticle accept

\* the url a request names: none, the empty string, a malformed string, a
\* well-formed url of another scheme, and pages (one with a tracking parameter)
TargetP == <<"http://h/p">>
TargetPTracked == <<"HTTP://H/p", [name |-> "utm_source", value |-> "1"]>>
RouteTargets ==
  { Absent, <<>>, <<"not a url">>, <<"ftp://h/p">>, TargetP, TargetPTracked }

\* what `new URL(url)` and validateURL make of a target
TargetKind(u) ==
  IF u = Absent \/ u = <<>> THEN "missing"
  ELSE IF Head(u) \in Garbage THEN "malformed"
  ELSE IF WellFormed(u) THEN "http"
  ELSE "ftp"

\* the requests GET /api/geo classifies
RouteClients ==
  { [NoRequest EXCEPT !.userAgent = <<"GPT", "Bot">>],
    [NoRequest EXCEPT !.userAgent = BrowserUA],
    [NoRequest EXCEPT !.userAgent = BrowserUA, !.accept = <<"application/json">>],
    [NoRequest EXCEPT !.userAgent = BrowserUA, !.query = <<QueryParam("format", "geo")>>] }

\* aiDetector.isAI(request) of each of them
aiDetectorIsAI == [c \in RouteClients |-> isAI(DefaultDetector, c)]

\* bodies of POST /api/generate: a full IR, one without a section, and one
\* whose three sections are empty objects
Payloads == {"valid", "missing-section", "hollow"}

Text(n) == [null |-> FALSE, len |-> n]

\* !s of a string | null
Falsy(t) == t.null \/ t.len = 0

\* reader.parse(): null, or a result whose length is textContent.length
Readability(t, c, x) ==
  [null |-> FALSE, title |-> t, content |-> c, textContent |-> x, length |-> x]

ReadabilityResults ==
  { NoParse.result }
    \cup { Readability(t, c, x) :
             t \in {NullText, Text(0), Text(1)},
             c \in {Text(0), Text(1)},
             x \in {NullText, Text(0), Text(MinTextLength - 1), Text(MinTextLength)} }

\* the conversion without its length test
convertToStrictTypeAnyLength(res) ==
  IF Falsy(res.title) \/ Falsy(res.content) \/ Falsy(res.textContent) THEN NoArticle
  ELSE [null |-> FALSE, title |-> res.title, content |-> res.content,
        textContent |-> res.textContent]

convertToStrictType(res) ==
  IF Falsy(res.title) \/ Falsy(res.content) \/ Falsy(res.textContent) THEN NoArticle
  ELSE IF res.length.null \/ res.length.len < MinTextLength THEN NoArticle
  ELSE [null |-> FALSE, title |-> res.title, content |-> res.content,
        textContent |-> res.textContent]

validateArticle(article) ==
  IF article.null THEN FALSE
  ELSE IF Falsy(article.title) \/ Falsy(article.content) \/ Falsy(article.textContent)
    THEN FALSE
  ELSE IF article.textContent.len < MinTextLength THEN FALSE
  ELSE TRUE

\* what fetchHTMLWithRetry ends in: the page, or the code clean() throws
FetchOutcomes == {"html", "FETCH_FAILED", "NOT_FOUND", "INVALID_CONTENT_TYPE"}

\* what parseWithReadability does before the conversion: it throws, or
\* Readability returns
ParseSteps == {"result", "EMPTY_HTML", "PARSE_ERROR", "READABILITY_ERROR"}

\* the ways one run of clean() on an http(s) url can go
CleanRuns ==
  { [f |-> f, ps |-> "result", res |-> NoParse.result] : f \in FetchOutcomes \ {"html"} }
    \cup { [f |-> "html", ps |-> ps, res |-> NoParse.result] : ps \in ParseSteps \ {"result"} }
    \cup { [f |-> "html", ps |-> "result", res |-> res] : res \in ReadabilityResults }

\* htmlCleaner.clean(url): the article, or the code of the error thrown
clean(kind, f, ps, res) ==
  IF kind = "malformed" THEN [ok |-> FALSE, code |-> "INVALID_URL", article |-> NoArticle]
  ELSE IF kind # "http" THEN [ok |-> FALSE, code |-> "INVALID_PROTOCOL", article |-> NoArticle]
  ELSE IF f # "html" THEN [ok |-> FALSE, code |-> f, article |-> NoArticle]
  ELSE IF ps # "result" THEN [ok |-> FALSE, code |-> ps, article |-> NoArticle]
  ELSE IF res.null \/ convertToStrictType(res).null
    THEN [ok |-> FALSE, code |-> "PARSE_FAILED", article |-> NoArticle]
  ELSE [ok |-> TRUE, code |-> "none", article |-> convertToStrictType(res)]

\* irGenerator.generate(article, url): the IR, named by the url it records
generateIR(article, u) ==
  IF u = TargetP THEN "ir(http://h/p)"
  ELSE IF u = TargetPTracked THEN "ir(HTTP://H/p?utm_source=1)"
  ELSE "ir(other)"

\* geoGenerator.generate(ir)
generateGEO(ir) == [doc |-> "geo", ir |-> ir]

\* the failure categories a status should tell apart
Category(cause) ==
  IF cause \in {"MISSING_URL", "INVALID_FORMAT", "INVALID_URL", "INVALID_PROTOCOL",
                "INVALID_IR", "TypeError"} THEN "invalid"
  ELSE IF cause \in {"PARSE_FAILED", "INSUFFICIENT_CONTENT", "EMPTY_HTML",
                     "PARSE_ERROR", "READABILITY_ERROR"} THEN "unprocessable"
  ELSE IF cause \in {"FETCH_FAILED", "NOT_FOUND"} THEN "upstream"
  ELSE "other"

ErrorResp(status, cause) ==
  [NoResp EXCEPT !.status = status, !.kind = "error", !.error = cause]

\* the 200 responses: the human page, the GEO page, the parse result
HumanPage == [NoResp EXCEPT !.status = 200, !.kind = "human"]

GeoPage(ir) ==
  [NoResp EXCEPT !.status = 200, !.kind = "geo", !.geoHTML = generateGEO(ir),
                 !.optimized = TRUE]

ParseResult(ir, originalHTML) ==
  [NoResp EXCEPT !.status = 200, !.kind = "parse", !.ir = ir,
                 !.geoHTML = generateGEO(ir),
                 !.originalHTML = IF originalHTML = "" THEN Null ELSE originalHTML]

Success(route, ir, originalHTML) ==
  IF route = "geo" THEN GeoPage(ir) ELSE ParseResult(ir, originalHTML)

InitRoute ==
  /\ config = [ttl |-> DefaultTTL, maxSize |-> IrMaxSize, enabled |-> TRUE]
  /\ cache = <<>>
  /\ hits = 0
  /\ misses = 0
  /\ now = 0
  /\ calls = [p \in Callers |-> Idle]
  /\ ret = [p \in Callers |-> Null]
  /\ overlapped = FALSE
  /\ setLog = NoLog
  /\ last = "none"
  /\ rpc = "idle"
  /\ incoming = NoReq
  /\ resp = NoResp
  /\ reached = {}
  /\ parsed = NoParse
  /\ generated = NoArticle
  /\ statusLog = {}
  /\ InitKeyIdle
  /\ InitFetchIdle
  /\ InitDetectIdle
  /\ InitGenIdle

\* the handler returns r
Answer(r) ==
  /\ rpc' = "done"
  /\ resp' = r
  /\ statusLog' = IF r.kind = "error"
                    THEN statusLog \cup {<<Category(r.error), r.status>>}
                    ELSE statusLog

\* the handler returns before getCachedIR
NoLookup ==
  /\ UNCHANGED <<cache, hits, misses>>
  /\ reached' = {}

\* await getCachedIR(url, factory), up to the factory's await of clean():
\* generateKey, irCache.get, and on a hit the rest of the handler
Lookup(route, u) ==
  /\ CanLookup
  /\ LET r == CacheGet(generateKey(u))
     IN /\ cache' = r.cache
        /\ hits' = r.hits
        /\ misses' = r.misses
        /\ reached' = {"cache"}
        /\ IF Truthy(r.value)
             THEN Answer(Success(route, r.value, ""))
             ELSE rpc' = "clean" /\ resp' = NoResp /\ statusLog' = statusLog

\* GET /api/geo without the classification gate: every request with a target
\* goes to getCachedIR
GeoGetUngated(u, c) ==
  /\ rpc \in {"idle", "done"}
  /\ incoming' = [route |-> "geo", target |-> u, client |-> c, payload |-> "none"]
  /\ parsed' = NoParse
  /\ generated' = NoArticle
  /\ IF u = Absent \/ ~TruthyString(u)
       THEN NoLookup /\ Answer(ErrorResp(400, "MISSING_URL"))
     ELSE Lookup("geo", u)
  /\ UNCHANGED <<config, now, calls, ret, overlapped, setLog, last>>
  /\ UNCHANGED <<keyVars, fetchVars, detectVars, genVars>>

\* GET /api/geo with target url u from a client whose headers and query are c
GeoGet(u, c) ==
  /\ rpc \in {"idle", "done"}
  /\ incoming' = [route |-> "geo", target |-> u, client |-> c, payload |-> "none"]
  /\ parsed' = NoParse
  /\ generated' = NoArticle
  /\ IF u = Absent \/ ~TruthyString(u)          \* if (!targetURL)
       THEN NoLookup /\ Answer(ErrorResp(400, "MISSING_URL"))
     ELSE IF ~aiDetectorIsAI[c]                 \* if (!isAI)
       THEN NoLookup /\ Answer(HumanPage)
     ELSE Lookup("geo", u)
  /\ UNCHANGED <<config, now, calls, ret, overlapped, setLog, last>>
  /\ UNCHANGED <<keyVars, fetchVars, detectVars, genVars>>

\* POST /api/parse with body {url: u}
ParsePost(u) ==
  /\ rpc \in {"idle", "done"}
  /\ incoming' = [route |-> "parse", target |-> u, client |-> NoRequest, payload |-> "none"]
  /\ parsed' = NoParse
  /\ generated' = NoArticle
  /\ IF u = Absent \/ ~TruthyString(u)          \* if (!url || typeof url !== "string")
       THEN NoLookup /\ Answer(ErrorResp(400, "MISSING_URL"))
     ELSE IF TargetKind(u) = "malformed"        \* new URL(url) throws
       THEN NoLookup /\ Answer(ErrorResp(400, "INVALID_FORMAT"))
     ELSE Lookup("parse", u)
  /\ UNCHANGED <<config, now, calls, ret, overlapped, setLog, last>>
  /\ UNCHANGED <<keyVars, fetchVars, detectVars, genVars>>

\* POST /api/generate with body {ir: ...}
GeneratePost(payload) ==
  /\ rpc \in {"idle", "done"}
  /\ incoming' = [route |-> "generate", target |-> Absent, client |-> NoRequest,
                  payload |-> payload]
  /\ parsed' = NoParse
  /\ generated' = NoArticle
  /\ NoLookup
  /\ IF payload = "missing-section"
       THEN Answer(ErrorResp(400, "INVALID_IR"))
     ELSE IF payload = "hollow"                 \* ir.content.images is undefined
       THEN Answer(ErrorResp(500, "TypeError"))
     ELSE Answer([NoResp EXCEPT !.status = 200, !.kind = "generate",
                                !.geoHTML = generateGEO("ir(payload)")])
  /\ UNCHANGED <<config, now, calls, ret, overlapped, setLog, last>>
  /\ UNCHANGED <<keyVars, fetchVars, detectVars, genVars>>

\* The factory and the rest of the handler after a miss: clean(), where the
\* fetch ends in f and the parsing in ps and res, then validateArticle,
\* irGenerator.generate, irCache.set and the response.
Clean(f, ps, res) ==
  /\ rpc = "clean"
  /\ LET u == incoming.target
         kind == TargetKind(u)
         c == clean(kind, f, ps, res)
         converted == kind = "http" /\ f = "html" /\ ps = "result"
         built == c.ok /\ validateArticle(c.article)
         ir == generateIR(c.article, u)
     IN /\ parsed' = IF converted
                       THEN [ran |-> TRUE, result |-> res,
                             article |-> IF res.null THEN NoArticle
                                         ELSE convertToStrictType(res)]
                       ELSE NoParse
        /\ reached' = reached \cup {"cleaner"}
                        \cup (IF kind = "http" THEN {"fetcher"} ELSE {})
                        \cup (IF converted THEN {"extractor"} ELSE {})
                        \cup (IF built THEN {"builder"} ELSE {})
        /\ generated' = IF built THEN c.article ELSE NoArticle
        /\ cache' = IF built THEN CacheSet(cache, generateKey(u), ir, 0) ELSE cache
        /\ IF ~c.ok THEN Answer(ErrorResp(500, c.code))
           ELSE IF ~built THEN Answer(ErrorResp(500, "INSUFFICIENT_CONTENT"))
           ELSE Answer(Success(incoming.route, ir, "html"))
  /\ UNCHANGED <<incoming, hits, misses>>
  /\ UNCHANGED <<config, now, calls, ret, overlapped, setLog, last>>
  /\ UNCHANGED <<keyVars, fetchVars, detectVars, genVars>>

NextRoute ==
  \/ \E u \in RouteTargets, c \in RouteClients : GeoGet(u, c)
  \/ \E u \in RouteTargets : ParsePost(u)
  \/ \E payload \in Payloads : GeneratePost(payload)
  \/ \E run \in CleanRuns : Clean(run.f, run.ps, run.res)
  \/ Tick

SpecRoute == InitRoute /\ [][NextRoute]_vars

\* the clients of GET /api/geo that isAI classifies as non-AI
NonAIClients == {c \in RouteClients : ~isAI(DefaultDetector, c)}

\* C17: in GET /api/geo a request classified as non-AI never reaches the cache
\* lookup, the fetcher, the extractor or the IR builder (cache entries, hits
\* and misses stay as they were), and when it names a target it receives the
\* human-facing page, never the GEO HTML; the GEO HTML with X-GEO-Optimized:
\* true is only sent by GET /api/geo to a request isAI classified as AI.
C17_NonAIGated ==
  [][ /\ (incoming'.route = "geo" /\ incoming'.client \in NonAIClients) =>
          /\ cache' = cache /\ hits' = hits /\ misses' = misses
          /\ reached' = {}
          /\ rpc' = "done"
          /\ resp'.kind # "geo" /\ ~resp'.optimized /\ resp'.geoHTML = NoDoc
          /\ (incoming'.target # Absent /\ TruthyString(incoming'.target))
                => resp' = HumanPage
      /\ (resp'.kind = "geo" \/ resp'.optimized) =>
          (incoming'.route = "geo" /\ incoming'.client \notin NonAIClients)
    ]_vars

\* a browser's GET /api/geo for a page whose IR is cached was answered with
\* the human page
C17_Witness ==
  /\ rpc = "done"
  /\ incoming.route = "geo"
  /\ incoming.client \in NonAIClients
  /\ incoming.target = TargetP
  /\ resp = HumanPage
  /\ \E i \in 1..Len(cache) : cache[i].key = generateKey(TargetP)

\* C18: every failing request to /api/geo, /api/parse or /api/generate gets
\* an error payload whose status tells three categories apart: an invalid
\* request (malformed target, unsupported scheme, malformed IR payload) is a
\* client error (4xx) answered before any cache lookup or fetch, and invalid
\* request, unprocessable content and upstream failure never share a status.
C18_StatusCategories ==
  /\ (rpc = "done" /\ resp.kind = "error") =>
        /\ resp.error # "none"
        /\ resp.status >= 400
        /\ Category(resp.error) = "invalid" =>
              (resp.status < 500 /\ reached = {})
  /\ \A a, b \in statusLog : a[1] # b[1] => a[2] # b[2]

\* C19: every successful POST /api/parse returns the IR, the rendered GEO
\* HTML and the original HTML of the page, on the first request for a url and
\* on every later request served from the IR cache.
C19_ParseReturnsAll ==
  (rpc = "done" /\ incoming.route = "parse" /\ resp.status = 200) =>
    /\ resp.ir # Null
    /\ resp.geoHTML = generateGEO(resp.ir)
    /\ resp.originalHTML # Null

\* title, content and textContent are non-empty and the text has 50 characters
\* or more
Complete(x) ==
  /\ ~x.title.null /\ x.title.len > 0
  /\ ~x.content.null /\ x.content.len > 0
  /\ ~x.textContent.null /\ x.textContent.len >= MinTextLength

\* C20: the extractor's conversion yields null whenever title, content or
\* textContent is missing or empty or textContent is shorter than 50; in
\* every pipeline run irGenerator.generate is invoked only with an article
\* whose three fields are non-empty and whose text has 50 characters or more;
\* a rejected article ends the request with an error, and no IR is built or
\* cached.
C20_OnlyCompleteArticles ==
  [][ rpc = "clean" =>
        /\ (parsed'.ran /\ ~parsed'.result.null /\ ~Complete(parsed'.result))
              => parsed'.article.null
        /\ ~generated'.null => Complete(generated')
        /\ "builder" \in reached' <=> ~generated'.null
        /\ (parsed'.ran /\ parsed'.article.null) =>
              /\ generated'.null
              /\ resp'.kind = "error" /\ resp'.ir = Null /\ resp'.geoHTML = NoDoc
              /\ cache' = cache
        /\ cache' # cache => ~generated'.null
    ]_vars

\* a page whose text is one character short was parsed, and the request
\* ended with the extractor's error
C20_Witness ==
  /\ rpc = "done"
  /\ parsed.ran
  /\ ~parsed.result.null
  /\ parsed.result.title.len > 0 /\ parsed.result.content.len > 0
  /\ ~parsed.result.textContent.null
  /\ parsed.result.textContent.len = MinTextLength - 1
  /\ parsed.article.null
  /\ resp.kind = "error" /\ resp.error = "PARSE_FAILED"
  /\ "builder" \notin reached

\* ------------------------------------------------------------------------
\* Further properties of the synchronous API (specification Spec)
\* ------------------------------------------------------------------------
\* C25: a run of the sweep removes every entry with now > expiresAt and
\* nothing else: every entry with now <= expiresAt is still present with the
\* same value and expiry, nothing is added, and hits and misses are unchanged.
C25_SweepRemovesExpiredOnly ==
  [][ Cleanup =>
        /\ \A i \in 1..Len(cache) :
              IF now > cache[i].expiresAt
                THEN ~MapHas(cache', cache[i].key)
                ELSE /\ MapHas(cache', cache[i].key)
                     /\ MapGet(cache', cache[i].key) = cache[i]
        /\ \A j \in 1..Len(cache') : \E i \in 1..Len(cache) : cache[i] = cache'[j]
        /\ hits' = hits
        /\ misses' = misses ]_vars

\* the sweep has just removed an expired entry and kept one that sits exactly
\* at its expiresAt
C25_Witness ==
  /\ last = "swept"
  /\ \E i \in 1..Len(cache) : now = cache[i].expiresAt

\* C27: in an enabled cache with maxSize >= 1 the number of stored entries
\* never exceeds maxSize, whatever operations ran and whatever the keys, the
\* empty string included.
C27_SizeBounded ==
  (config.enabled /\ config.maxSize >= 1) => Len(cache) <= config.maxSize

\* C28: a set on a key already present only replaces that key's entry: every
\* other key keeps its entry, also when the cache is at capacity.
C28_OverwriteKeepsOthers ==
  [][ \A k \in Keys, w \in Writes :
        (config.enabled /\ MapHas(cache, k) /\ Set(k, w.value, w.ttl)) =>
          /\ MapHas(cache', k)
          /\ MapGet(cache', k).data = w.value
          /\ \A j \in Keys \ {k} :
                MapHas(cache, j) =>
                  (MapHas(cache', j) /\ MapGet(cache', j) = MapGet(cache, j)) ]_vars

\* ------------------------------------------------------------------------
\* The whole API of one instance, synchronous operations and getOrSet by one
\* caller, on two page keys (specification SpecStats)
\* ------------------------------------------------------------------------
StatKeys == {<<"http://h/p">>, <<"http://h/q">>}

NextStats ==
  \/ Tick
  \/ \E k \in StatKeys : Get(k)
  \/ \E k \in StatKeys : Has(k)
  \/ \E k \in StatKeys : Set(k, "v1", 0)
  \/ \E k \in StatKeys : Delete(k)
  \/ Clear
  \/ Cleanup
  \/ \E k \in StatKeys : GetOrSet(1, k, 0)
  \/ FactoryResolve(1, "v1")
  \/ FactoryReject(1)

SpecStats == Init /\ [][NextStats]_vars

\* exactly one of the two counters goes up, by one
CountsOne ==
  \/ hits' = hits + 1 /\ misses' = misses
  \/ hits' = hits /\ misses' = misses + 1

\* what getStats reports in the current state
StatsAgree ==
  /\ getStats.hits = hits
  /\ getStats.misses = misses
  /\ getStats.size = Len(cache)
  /\ getStats.hitRate = IF hits + misses = 0 THEN <<0, 1>> ELSE <<hits, hits + misses>>

\* C30: in an enabled cache every lookup (get, has, the lookup of getOrSet)
\* increments exactly one of hits and misses, so hits + misses counts the
\* lookups since construction or the last clear; set, delete and cleanup
\* change neither; clear resets both to 0 and empties the map; getStats
\* reports hitRate = hits / (hits + misses), or 0 without lookups, and size =
\* the number of stored entries, expired ones included.
C30_CountersAndStats ==
  [][ /\ \A k \in StatKeys :
            (config.enabled /\ (Get(k) \/ Has(k) \/ GetOrSet(1, k, 0))) => CountsOne
      /\ \A k \in StatKeys :
            (config.enabled /\ (Set(k, "v1", 0) \/ Delete(k) \/ Cleanup))
              => (hits' = hits /\ misses' = misses)
      /\ Clear => (hits' = 0 /\ misses' = 0 /\ cache' = <<>>)
      /\ StatsAgree /\ StatsAgree' ]_vars

\* a hit, then a lookup that found the entry expired: one hit and one miss,
\* while an entry is stored
C30_Witness ==
  /\ config.enabled
  /\ last = "expired"
  /\ hits = 1 /\ misses = 1
  /\ getStats.hitRate = <<1, 2>>
  /\ Len(cache) >= 1

\* ------------------------------------------------------------------------
\* Further properties of the route handlers (specification SpecRoute)
\* ------------------------------------------------------------------------
\* C29: the IR returned for a request on url u has metadata.url = u, so that
\* the X-Original-URL header (the request's targetURL) and the url rendered
\* from the IR agree, also when the IR comes from the cache after a request
\* whose url differed from u only in tracking parameters.
C29_IRUrlIsRequestUrl ==
  (rpc = "done" /\ resp.status = 200 /\ incoming.route \in {"geo", "parse"}
     /\ resp.kind \in {"geo", "parse"})
    => resp.geoHTML.ir = generateIR(NoArticle, incoming.target)

\* ------------------------------------------------------------------------
\* Further properties of the fetcher (specification SpecFetchLive)
\* ------------------------------------------------------------------------
\* the reply did not deliver the HTML text within the attempt's timeout
Overdue(r) ==
  \/ r.kind = "timeout"
  \/ r.kind = "response" /\ ResponseOk(r) /\ IsHtmlType(r.ctype)
       /\ r.body \in {"late", "never"}

\* C24: attempt k (0..3) runs under a timeout of 10 s + 2 s x k from the
\* request until the HTML text is there; an attempt that reaches its timeout
\* is aborted and counts as a retryable failure (the next attempt follows,
\* or FETCH_FAILED after the 4th), so the fetcher always terminates.
C24_AttemptsBounded ==
  /\ [](\A i \in 1..Len(outcomes) :
          /\ (i = Len(outcomes)) => timeoutMs = 10000 + 2000 * (i - 1)
          /\ Overdue(outcomes[i]) =>
                IF i <= maxRetries
                  THEN Len(outcomes) > i \/ fpc \in {"backoff", "request"}
                  ELSE fpc = "done" /\ result.code = "FETCH_FAILED")
  /\ <>(fpc = "done")

\* ------------------------------------------------------------------------
\* GeoGenerator (lib/geo-generator.ts)
\* Text is a sequence of one-character strings. A rendered document is the
\* sequence of the pieces joined into it: a piece of the template carries
\* from = "template", an interpolated value carries the IR field it is.
\* ------------------------------------------------------------------------
MaxHeadings == 3      \* headings of an IR given to generateMainContent
MaxParagraphs == 10   \* paragraphs of an IR given to generateMainContent

Lit(s) == [from |-> "template", text |-> <<s>>]
Field(f, t) == [from |-> f, text |-> t]

\* an optional field that is set and not the empty string
TruthyText(t) == t # Absent /\ Len(t) > 0

RECURSIVE ReplaceAll(_, _, _)
\* text.replace(/c/g, by)
ReplaceAll(text, c, by) ==
  IF text = <<>> THEN <<>>
  ELSE (IF Head(text) = c THEN by ELSE <<Head(text)>>) \o ReplaceAll(Tail(text), c, by)

escapeHTML(text) ==
  LET amp  == ReplaceAll(text, "&", <<"&", "a", "m", "p", ";">>)
      lt   == ReplaceAll(amp, "<", <<"&", "l", "t", ";">>)
      gt   == ReplaceAll(lt, ">", <<"&", "g", "t", ";">>)
      quot == ReplaceAll(gt, "\"", <<"&", "q", "u", "o", "t", ";">>)
  IN  ReplaceAll(quot, "'", <<"&", "#", "0", "3", "9", ";">>)

\* the pieces of one heading's <section>, its paragraphs not included
headingLines(heading) ==
  <<Lit("<section>"), Lit("<h"), Field("heading.level", heading.level)>>
    \o (IF TruthyText(heading.id)
          THEN <<Lit(" id=\""), Field("heading.id", heading.id), Lit("\"")>>
          ELSE <<>>)
    \o <<Lit(">"), Field("heading.text", escapeHTML(heading.text)),
         Lit("</h"), Field("heading.level", heading.level), Lit(">")>>

RECURSIVE paragraphLines(_, _, _)
\* the <p> lines of paragraphs[from..to] (0-based, to excluded)
paragraphLines(paragraphs, from, to) ==
  IF from >= to \/ ~(from < Len(paragraphs)) THEN <<>>
  ELSE <<Lit("<p>"), Field("paragraph", escapeHTML(paragraphs[from + 1])), Lit("</p>")>>
         \o paragraphLines(paragraphs, from + 1, to)

MinOf(a, b) == IF a <= b THEN a ELSE b

RECURSIVE headingSections(_, _, _)
\* headings.forEach from the i-th heading on, entered with paragraphIndex
headingSections(ir, i, paragraphIndex) ==
  IF i > Len(ir.content.headings)
    THEN [parts |-> <<>>, paragraphIndex |-> paragraphIndex]
    ELSE LET paragraphs == ir.content.paragraphs
             paragraphsToAdd == MinOf(3, Len(paragraphs) - paragraphIndex)
             upTo == IF paragraphsToAdd > 0 THEN paragraphIndex + paragraphsToAdd
                                             ELSE paragraphIndex
             rest == headingSections(ir, i + 1, upTo)
         IN  [parts |-> headingLines(ir.content.headings[i])
                          \o paragraphLines(paragraphs, paragraphIndex, upTo)
                          \o <<Lit("</section>")>>
                          \o rest.parts,
              paragraphIndex |-> rest.paragraphIndex]

\* the main block without the loop over the remaining paragraphs
generateMainContentNoRest(ir) ==
  <<Lit("<main>")>> \o headingSections(ir, 1, 0).parts \o <<Lit("</main>")>>

generateMainContent(ir) ==
  LET grouped == headingSections(ir, 1, 0)
  IN  <<Lit("<main>")>>
        \o grouped.parts
        \o paragraphLines(ir.content.paragraphs, grouped.paragraphIndex,
                          Len(ir.content.paragraphs))
        \o <<Lit("</main>")>>

\* ---- JSON-LD (generateJSONLD) ----
\* JSON.stringify of a string value, without the enclosing quotes: backslash
\* and double quote get a backslash, every other character stays
jsonString(text) ==
  ReplaceAll(ReplaceAll(text, "\\", <<"\\", "\\">>), "\"", <<"\\", "\"">>)

\* one "name": "value" member of the stringified object
jsonMember(name, f, text) ==
  <<Lit(name), Lit("\""), Field(f, jsonString(text)), Lit("\"")>>

RECURSIVE JoinText(_, _)
\* array.join(sep)
JoinText(texts, sep) ==
  IF texts = <<>> THEN <<>>
  ELSE IF Len(texts) = 1 THEN texts[1]
  ELSE texts[1] \o sep \o JoinText(Tail(texts), sep)

generateJSONLD(ir) ==
  LET images == ir.content.images
      mainImage == images[1]
      keywords == ir.semantic.keywords
  IN  <<Lit("{\"@context\": \"https://schema.org\"")>>
        \o jsonMember("@type", "mainEntityType", ir.semantic.mainEntityType)
        \o jsonMember("headline", "title", ir.metadata.title)
        \o jsonMember("description", "excerpt", ir.metadata.excerpt)
        \o jsonMember("url", "url", ir.metadata.url)
        \o (IF ir.metadata.lang # Absent
              THEN jsonMember("inLanguage", "lang", ir.metadata.lang) ELSE <<>>)
        \o (IF TruthyText(ir.metadata.author)
              THEN jsonMember("author.name", "author", ir.metadata.author) ELSE <<>>)
        \o (IF TruthyText(ir.metadata.publishDate)
              THEN jsonMember("datePublished", "publishDate", ir.metadata.publishDate)
              ELSE <<>>)
        \o (IF TruthyText(ir.metadata.siteName)
              THEN jsonMember("publisher.name", "siteName", ir.metadata.siteName)
              ELSE <<>>)
        \o (IF Len(images) > 0
              THEN jsonMember("image.url", "image.src", mainImage.src)
                     \o (IF TruthyText(mainImage.alt)
                           THEN jsonMember("image.caption", "image.alt", mainImage.alt)
                         ELSE IF mainImage.caption # Absent
                           THEN jsonMember("image.caption", "image.caption", mainImage.caption)
                         ELSE <<>>)
                     \o (IF mainImage.width # Absent
                           THEN <<Lit("image.width"), Field("image.width", mainImage.width)>>
                           ELSE <<>>)
                     \o (IF mainImage.height # Absent
                           THEN <<Lit("image.height"), Field("image.height", mainImage.height)>>
                           ELSE <<>>)
              ELSE <<>>)
        \o (IF keywords.defined /\ Len(keywords.items) > 0
              THEN jsonMember("keywords", "keywords", JoinText(keywords.items, <<",", " ">>))
              ELSE <<>>)
        \o (IF ir.semantic.mainEntityType = <<"Product">>
              THEN <<Lit("offers")>> ELSE <<>>)
        \o <<Lit("}")>>

\* ---- the body sections ----
generateHeader(ir) ==
  <<Lit("<header><h1>"), Field("title", escapeHTML(ir.metadata.title)), Lit("</h1>")>>
    \o (IF TruthyText(ir.metadata.author)
          THEN <<Lit("<span><meta itemprop=\"name\" content=\""),
                 Field("author", escapeHTML(ir.metadata.author)), Lit("\">"),
                 Field("author", escapeHTML(ir.metadata.author)), Lit("</span>")>>
          ELSE <<>>)
    \o (IF TruthyText(ir.metadata.publishDate)
          THEN <<Lit("<time datetime=\""),
                 Field("publishDate", ir.metadata.publishDate), Lit("\">"),
                 Field("publishDate.toLocaleDateString", <<"d">>), Lit("</time>")>>
          ELSE <<>>)
    \o (IF TruthyText(ir.metadata.excerpt)
          THEN <<Lit("<p class=\"excerpt\">"),
                 Field("excerpt", escapeHTML(ir.metadata.excerpt)), Lit("</p>")>>
          ELSE <<>>)
    \o <<Lit("</header>")>>

imageFigure(image) ==
  <<Lit("<figure><img src=\""), Field("image.src", escapeHTML(image.src)),
    Lit("\" alt=\""), Field("image.alt", escapeHTML(image.alt)), Lit("\"")>>
    \o (IF image.width # Absent
          THEN <<Lit(" width=\""), Field("image.width", image.width), Lit("\"")>> ELSE <<>>)
    \o (IF image.height # Absent
          THEN <<Lit(" height=\""), Field("image.height", image.height), Lit("\"")>> ELSE <<>>)
    \o <<Lit("/>")>>
    \o (IF TruthyText(image.caption)
          THEN <<Lit("<figcaption>"), Field("image.caption", escapeHTML(image.caption)),
                 Lit("</figcaption>")>>
          ELSE <<>>)
    \o <<Lit("</figure>")>>

RECURSIVE Flatten(_)
\* the parts pushed for each element of a list, in list order
Flatten(lists) ==
  IF lists = <<>> THEN <<>> ELSE Head(lists) \o Flatten(Tail(lists))

generateImagesSection(ir) ==
  <<Lit("<section class=\"images\">")>>
    \o Flatten([i \in 1..Len(ir.content.images) |-> imageFigure(ir.content.images[i])])
    \o <<Lit("</section>")>>

listItem(item) == <<Lit("<li>"), Field("list.item", escapeHTML(item)), Lit("</li>")>>

listBlock(list) ==
  <<Lit("<"), Field("list.type", list.type), Lit(">")>>
    \o Flatten([i \in 1..Len(list.items) |-> listItem(list.items[i])])
    \o <<Lit("</"), Field("list.type", list.type), Lit(">")>>

generateListsSection(ir) ==
  <<Lit("<section class=\"lists\">")>>
    \o Flatten([i \in 1..Len(ir.content.lists) |-> listBlock(ir.content.lists[i])])
    \o <<Lit("</section>")>>

videoBlock(video) ==
  IF includes(video.src, <<"youtube.com">>) \/ includes(video.src, <<"vimeo.com">>)
    THEN <<Lit("<div class=\"video-embed\"><iframe src=\""),
           Field("video.src", escapeHTML(video.src)), Lit("\"></iframe>")>>
           \o (IF TruthyText(video.caption)
                 THEN <<Lit("<p>"), Field("video.caption", escapeHTML(video.caption)),
                        Lit("</p>")>>
                 ELSE <<>>)
           \o <<Lit("</div>")>>
    ELSE <<Lit("<video controls")>>
           \o (IF TruthyText(video.poster)
                 THEN <<Lit(" poster=\""), Field("video.poster", escapeHTML(video.poster)),
                        Lit("\"")>>
                 ELSE <<>>)
           \o <<Lit("><source src=\""), Field("video.src", escapeHTML(video.src)),
                Lit("\"></video>")>>
           \o (IF TruthyText(video.caption)
                 THEN <<Lit("<p>"), Field("video.caption", escapeHTML(video.caption)),
                        Lit("</p>")>>
                 ELSE <<>>)

generateVideosSection(ir) ==
  <<Lit("<section class=\"videos\">")>>
    \o Flatten([i \in 1..Len(ir.content.videos) |-> videoBlock(ir.content.videos[i])])
    \o <<Lit("</section>")>>

generateBodyHTML(ir) ==
  generateHeader(ir)
    \o generateMainContent(ir)
    \o (IF Len(ir.content.images) > 0 THEN generateImagesSection(ir) ELSE <<>>)
    \o (IF Len(ir.content.lists) > 0
          THEN generateListsSection(ir) ELSE <<>>)
    \o (IF Len(ir.content.videos) > 0
          THEN generateVideosSection(ir) ELSE <<>>)

wrapHTML(ir, jsonLD, bodyHTML) ==
  <<Lit("<!DOCTYPE html><html lang=\"")>>
    \o <<IF TruthyText(ir.metadata.lang) THEN Field("lang", ir.metadata.lang)
                                         ELSE Lit("zh-CN")>>
    \o <<Lit("\"><head><title>"), Field("title", escapeHTML(ir.metadata.title)),
         Lit("</title><meta name=\"description\" content=\""),
         Field("excerpt", escapeHTML(ir.metadata.excerpt)), Lit("\">")>>
    \o (IF TruthyText(ir.metadata.author)
          THEN <<Lit("<meta name=\"author\" content=\""),
                 Field("author", escapeHTML(ir.metadata.author)), Lit("\">")>>
          ELSE <<>>)
    \o (IF ir.semantic.keywords.defined
          THEN <<Lit("<meta name=\"keywords\" content=\""),
                 Field("keywords", escapeHTML(JoinText(ir.semantic.keywords.items, <<",", " ">>))),
                 Lit("\">")>>
          ELSE <<>>)
    \o <<Lit("<meta property=\"og:title\" content=\""),
         Field("title", escapeHTML(ir.metadata.title)),
         Lit("\"><meta property=\"og:description\" content=\""),
         Field("excerpt", escapeHTML(ir.metadata.excerpt)),
         Lit("\"><meta property=\"og:url\" content=\""),
         Field("url", ir.metadata.url), Lit("\">")>>
    \o (IF Len(ir.content.images) > 0
          THEN <<Lit("<meta property=\"og:image\" content=\""),
                 Field("image.src", ir.content.images[1].src), Lit("\">")>>
          ELSE <<>>)
    \o <<Lit("<script type=\"application/ld+json\">")>>
    \o jsonLD
    \o <<Lit("</script><style></style></head><body><article itemtype=\"https://schema.org/"),
         Field("mainEntityType", ir.semantic.mainEntityType),
         Lit("\"><meta itemprop=\"url\" content=\""),
         Field("url", ir.metadata.url), Lit("\">")>>
    \o (IF TruthyText(ir.metadata.siteName)
          THEN <<Lit("<meta itemprop=\"publisher\" content=\""),
                 Field("siteName", escapeHTML(ir.metadata.siteName)), Lit("\">")>>
          ELSE <<>>)
    \o bodyHTML
    \o <<Lit("</article></body></html>")>>

generate(ir) == wrapHTML(ir, generateJSONLD(ir), generateBodyHTML(ir))

\* ---- the IRs given to the renderer ----
Benign == <<"a">>
Hostile == <<"<", "\"", "'", ">", "&">>

\* i letters after a first character
Numbered(c, i) == <<c>> \o [j \in 1..i |-> "a"]

\* semantic.keywords is optional: absent, or a list (possibly empty)
NoKeywords == [defined |-> FALSE, items |-> <<>>]
Keywords(list) == [defined |-> TRUE, items |-> list]

\* the IR with no optional part; the optional lists and videos are <<>> when
\* absent, which the renderer treats like the empty array
BaseIR ==
  [metadata |-> [url |-> Benign, title |-> Benign, author |-> Absent,
                 publishDate |-> Absent, excerpt |-> Benign,
                 siteName |-> Absent, lang |-> Absent],
   content  |-> [headings |-> <<>>, paragraphs |-> <<>>, images |-> <<>>,
                 lists |-> <<>>, videos |-> <<>>],
   semantic |-> [mainEntityType |-> <<"Article">>, keywords |-> NoKeywords]]

\* an IR of h headings and n paragraphs, all of them different
MainIR(h, n, id) ==
  [BaseIR EXCEPT
     !.content.headings = [i \in 1..h |->
        [level |-> <<"2">>, text |-> Numbered("&", i),
         id |-> IF id THEN Numbered("h", i) ELSE Absent]],
     !.content.paragraphs = [i \in 1..n |-> Numbered("<", i)]]

MainIRs == {MainIR(h, n, id) : h \in 0..MaxHeadings, n \in 0..MaxParagraphs, id \in BOOLEAN}

\* the string fields of an IR that come from the page or the caller
RenderFields ==
  {"title", "author", "excerpt", "siteName", "url", "lang", "publishDate",
   "heading.text", "heading.id", "paragraph", "image.src", "image.alt",
   "image.caption", "list.item", "video.src", "video.poster", "video.caption",
   "keywords"}

\* an IR with every optional part present, its string fields given by val
FullIR(val) ==
  [metadata |-> [url |-> val["url"], title |-> val["title"], author |-> val["author"],
                 publishDate |-> val["publishDate"], excerpt |-> val["excerpt"],
                 siteName |-> val["siteName"], lang |-> val["lang"]],
   content  |-> [headings |-> <<[level |-> <<"2">>, text |-> val["heading.text"],
                                 id |-> val["heading.id"]]>>,
                 paragraphs |-> <<val["paragraph"]>>,
                 images |-> <<[src |-> val["image.src"], alt |-> val["image.alt"],
                               caption |-> val["image.caption"],
                               width |-> <<"8">>, height |-> Absent]>>,
                 lists |-> <<[type |-> <<"ul">>, items |-> <<val["list.item"]>>]>>,
                 videos |-> <<[src |-> <<"youtube.com">> \o val["video.src"],
                               poster |-> Absent, caption |-> val["video.caption"]],
                              [src |-> val["video.src"], poster |-> val["video.poster"],
                               caption |-> val["video.caption"]]>>],
   semantic |-> [mainEntityType |-> <<"Product">>,
                 keywords |-> Keywords(<<Benign, val["keywords"]>>)]]

\* the texts tried in a field: each markup character alone, and all of them
FieldTexts == {Hostile, <<"<">>, <<">">>, <<"\"">>, <<"'">>, <<"&">>}

RenderIRs ==
  {BaseIR, FullIR([g \in RenderFields |-> Benign])}
    \cup {FullIR([g \in RenderFields |-> IF g = f THEN t ELSE Benign]) :
            f \in RenderFields, t \in FieldTexts}

InitRender ==
  /\ arg \in RenderIRs
  /\ out = <<>>
  /\ gpc = "start"
  /\ InitCacheIdle /\ InitKeyIdle /\ InitFetchIdle /\ InitDetectIdle /\ InitRouteIdle

Generate ==
  /\ gpc = "start"
  /\ out' = generate(arg)
  /\ gpc' = "done"
  /\ UNCHANGED <<arg, cacheVars, keyVars, fetchVars, detectVars, routeVars>>

NextRender == Generate

SpecRender == InitRender /\ [][NextRender]_vars

InitMain ==
  /\ arg \in MainIRs
  /\ out = <<>>
  /\ gpc = "start"
  /\ InitCacheIdle /\ InitKeyIdle /\ InitFetchIdle /\ InitDetectIdle /\ InitRouteIdle

GenerateMainContent ==
  /\ gpc = "start"
  /\ out' = generateMainContent(arg)
  /\ gpc' = "done"
  /\ UNCHANGED <<arg, cacheVars, keyVars, fetchVars, detectVars, routeVars>>

NextMain == GenerateMainContent

SpecMain == InitMain /\ [][NextMain]_vars

\* ------------------------------------------------------------------------
\* IRGenerator.safeExtractImages / normalizeURL (lib/ir-generator.ts)
\* A URL or src attribute is a sequence of tokens: "http", "/", ":" and the
\* other pieces of the string ("s", a host, a file name). No token other than
\* "http" begins with the letters http, and only "/" begins with a slash.
\* ------------------------------------------------------------------------
MaxImages == 2      \* <img> elements of a page

StartsWith(text, prefix) ==
  Len(text) >= Len(prefix) /\ SubSeq(text, 1, Len(prefix)) = prefix

\* the position of the first token c of text from position a on (0 if none)
IndexFrom(text, c, a) ==
  IF \E i \in a..Len(text) : text[i] = c
    THEN CHOOSE i \in a..Len(text) : text[i] = c /\ \A j \in a..(i - 1) : text[j] # c
    ELSE 0

\* new URL(u) for u = <scheme>://<host>[/<path>]: protocol keeps its colon,
\* host keeps its port
ParseURL(u) ==
  LET colon == IndexFrom(u, ":", 1)
      slash == IndexFrom(u, "/", colon + 3)
      hostEnd == IF slash = 0 THEN Len(u) ELSE slash - 1
  IN  [protocol |-> SubSeq(u, 1, colon), host |-> SubSeq(u, colon + 3, hostEnd)]

\* string | null
normalizeURL(src, baseUrl) ==
  IF StartsWith(src, <<"/">>)
    THEN LET urlObj == ParseURL(baseUrl)
         IN  urlObj.protocol \o <<"/", "/">> \o urlObj.host \o src
  ELSE IF StartsWith(src, <<"/", "/">>)
    THEN <<"http", "s", ":">> \o src
  ELSE IF StartsWith(src, <<"http">>)
    THEN src
  ELSE Absent

\* the image pushed for one <img>, or none
extractImage(el, baseUrl) ==
  LET src == IF TruthyText(el.src) THEN el.src ELSE el.dataSrc
      normalized == normalizeURL(src, baseUrl)
  IN  IF ~TruthyText(src) THEN <<>>
      ELSE IF ~TruthyText(normalized) THEN <<>>
      ELSE <<[src |-> normalized,
              alt |-> IF TruthyText(el.alt) THEN el.alt ELSE <<>>,
              caption |-> Absent, width |-> Absent, height |-> Absent]>>

safeExtractImages(imgs, baseUrl) ==
  Flatten([i \in 1..Len(imgs) |-> extractImage(imgs[i], baseUrl)])

\* ---- the pages given to safeExtractImages ----
HttpsCdn == <<"http", "s", ":", "/", "/", "c", "/", "a">>

SrcTexts ==
  { HttpsCdn,                                 \* https://c/a
    <<"http", ":", "/", "/", "c", "/", "a">>, \* http://c/a
    <<"/", "/", "c", "/", "a">>,              \* //c/a
    <<"/", "a">>,                             \* /a
    <<"a">>,                                  \* a
    <<"data", ":", "a">>,                     \* data:a
    <<"http", "-logo">>,                      \* http-logo
    <<>>, Absent }                            \* src="" and no src

ImgElements ==
  {[src |-> t, dataSrc |-> d, alt |-> Benign] : t \in SrcTexts, d \in {Absent, HttpsCdn}}

PageURLs ==
  { <<"http", "s", ":", "/", "/", "h", "/", "p">>,   \* https://h/p
    <<"http", ":", "/", "/", "h:8080">>,             \* http://h:8080
    <<"ftp", ":", "/", "/", "h", "/", "p">> }        \* ftp://h/p

InitImages ==
  /\ arg \in {[imgs |-> e, baseUrl |-> u] : e \in SeqsUpTo(ImgElements, MaxImages), u \in PageURLs}
  /\ out = <<>>
  /\ gpc = "start"
  /\ InitCacheIdle /\ InitKeyIdle /\ InitFetchIdle /\ InitDetectIdle /\ InitRouteIdle

SafeExtractImages ==
  /\ gpc = "start"
  /\ out' = safeExtractImages(arg.imgs, arg.baseUrl)
  /\ gpc' = "done"
  /\ UNCHANGED <<arg, cacheVars, keyVars, fetchVars, detectVars, routeVars>>

NextImages == SafeExtractImages

SpecImages == InitImages /\ [][NextImages]_vars

\* ------------------------------------------------------------------------
\* IRGenerator.detectEntityType (lib/ir-generator.ts)
\* textContent is a sequence of words. The words the detector looks for are
\* written in pinyin: "jiage" (price), "goumai" (buy), "kucun" (stock),
\* "jizhe" (reporter), "baodao" (report), "zuozhe" (author).
\* The page's DOM is what the detector's selectors find in it: the number
\* of matches of each selector, and whether a selector query throws.
\* ------------------------------------------------------------------------
MaxWords == 2       \* words of textContent after the first

SchemaTypes == {"Product", "NewsArticle", "BlogPosting", "Article"}

\* the selector query $(sel).length > 0
Found(dom, sel) == dom[sel] > 0

\* the detector with the news rule tried before the product rule
detectEntityTypeNewsFirst(article, dom) ==
  LET content == toLowerCase(article.textContent)
  IN  IF TruthyText(article.publishedTime) \/ includes(content, <<"jizhe">>)
           \/ includes(content, <<"baodao">>)
        THEN "NewsArticle"
      ELSE IF dom.throws THEN "Article"
      ELSE IF Found(dom, "metaPublishedTime") THEN "NewsArticle"
      ELSE IF includes(content, <<"jiage">>) \/ includes(content, <<"goumai">>)
                \/ includes(content, <<"kucun">>)
                \/ Found(dom, "itempropPrice") \/ Found(dom, "price")
        THEN "Product"
      ELSE IF TruthyText(article.byline) \/ includes(content, <<"zuozhe">>)
                \/ Found(dom, "author") \/ Found(dom, "relAuthor")
        THEN "BlogPosting"
      ELSE "Article"

\* the tests run left to right; the first selector query is reached only
\* when no product word is in the text, and a query that throws ends the
\* detection in the catch block
detectEntityType(article, dom) ==
  LET content == toLowerCase(article.textContent)
  IN  IF includes(content, <<"jiage">>) \/ includes(content, <<"goumai">>)
           \/ includes(content, <<"kucun">>)
        THEN "Product"
      ELSE IF dom.throws THEN "Article"
      ELSE IF Found(dom, "itempropPrice") \/ Found(dom, "price")
        THEN "Product"
      ELSE IF TruthyText(article.publishedTime) \/ includes(content, <<"jizhe">>)
                \/ includes(content, <<"baodao">>) \/ Found(dom, "metaPublishedTime")
        THEN "NewsArticle"
      ELSE IF TruthyText(article.byline) \/ includes(content, <<"zuozhe">>)
                \/ Found(dom, "author") \/ Found(dom, "relAuthor")
        THEN "BlogPosting"
      ELSE "Article"

\* ---- the articles and pages given to detectEntityType ----
EntityWords == {"jiage", "goumai", "kucun", "jizhe", "baodao", "zuozhe"}

EntityTexts == {<<"Chrome">> \o w : w \in SeqsUpTo(EntityWords, MaxWords)}

EntityArticles ==
  [textContent : EntityTexts, publishedTime : {Absent, <<"2024">>},
   byline : {Absent, Benign}]

EntityDoms ==
  [itempropPrice : {0, 1}, price : {0, 1}, metaPublishedTime : {0, 1},
   author : {0, 1}, relAuthor : {0, 1}, throws : BOOLEAN]

InitEntity ==
  /\ arg \in [article : EntityArticles, dom : EntityDoms]
  /\ out = "none"
  /\ gpc = "start"
  /\ InitCacheIdle /\ InitKeyIdle /\ InitFetchIdle /\ InitDetectIdle /\ InitRouteIdle

DetectEntityType ==
  /\ gpc = "start"
  /\ out' = detectEntityType(arg.article, arg.dom)
  /\ gpc' = "done"
  /\ UNCHANGED <<arg, cacheVars, keyVars, fetchVars, detectVars, routeVars>>

NextEntity == DetectEntityType

SpecEntity == InitEntity /\ [][NextEntity]_vars

\* ------------------------------------------------------------------------
\* Properties of the main block (specification SpecMain)
\* ------------------------------------------------------------------------
\* the texts of the pieces of field f in doc[a..b], in document order
TextsOf(doc, f, a, b) ==
  LET sel == SelectSeq(SubSeq(doc, a, b), LAMBDA x : x.from = f)
  IN  [i \in 1..Len(sel) |-> sel[i].text]

\* the k-th smallest of a set of positions
NthOf(S, k) == CHOOSE i \in S : Cardinality({j \in S : j <= i}) = k

\* the positions of the heading texts and of the section ends of a document
HeadingTexts(doc) == {i \in 1..Len(doc) : doc[i].from = "heading.text"}
SectionEnds(doc) == {i \in 1..Len(doc) : doc[i] = Lit("</section>")}

\* paragraphs[a..b] (1-based) as they appear escaped in a document
EscapedParagraphs(ir, a, b) ==
  [i \in 1..(IF b >= a THEN b - a + 1 ELSE 0) |->
     escapeHTML(ir.content.paragraphs[a + i - 1])]

\* C26: the main block emits every paragraph of ir.content.paragraphs exactly
\* once and in IR order: the k-th heading, in IR order, is followed inside its
\* section by the next min(3, remaining) paragraphs, and the paragraphs left
\* after the last heading (all of them without headings) follow the last
\* section, outside any section.
C26_ParagraphsOnceInOrder ==
  gpc = "done" =>
    LET H == Len(arg.content.headings)
        n == Len(arg.content.paragraphs)
        used(k) == MinOf(3 * k, n)
        lastEnd == IF H = 0 THEN 0 ELSE NthOf(SectionEnds(out), H)
    IN  /\ TextsOf(out, "paragraph", 1, Len(out)) = EscapedParagraphs(arg, 1, n)
        /\ TextsOf(out, "heading.text", 1, Len(out))
             = [k \in 1..H |-> escapeHTML(arg.content.headings[k].text)]
        /\ Cardinality(SectionEnds(out)) = H
        /\ \A k \in 1..H :
             /\ NthOf(HeadingTexts(out), k) < NthOf(SectionEnds(out), k)
             /\ (k > 1) => NthOf(SectionEnds(out), k - 1) < NthOf(HeadingTexts(out), k)
             /\ TextsOf(out, "paragraph", NthOf(HeadingTexts(out), k),
                        NthOf(SectionEnds(out), k))
                  = EscapedParagraphs(arg, used(k - 1) + 1, used(k))
        /\ TextsOf(out, "paragraph", lastEnd + 1, Len(out))
             = EscapedParagraphs(arg, used(H) + 1, n)
        /\ \A i \in (lastEnd + 1)..Len(out) : out[i] # Lit("<section>")

\* headings with full groups, a short last group and none, and paragraphs
\* left over after the last heading
C26_Witness ==
  /\ gpc = "done"
  /\ Len(arg.content.headings) = 2
  /\ Len(arg.content.paragraphs) = 8
  /\ TextsOf(out, "paragraph", NthOf(SectionEnds(out), 2) + 1, Len(out))
       = <<escapeHTML(Numbered("<", 7)), escapeHTML(Numbered("<", 8))>>

\* ------------------------------------------------------------------------
\* Properties of the rendered document (specification SpecRender)
\* ------------------------------------------------------------------------
MarkupChars == {"<", ">", "\"", "'"}

\* C21: every IR field that comes from the page or the caller (title, author,
\* excerpt, siteName, url, lang, publishDate, heading text and id, paragraph,
\* image src/alt/caption, list item, video src/poster/caption, keywords) is
\* escaped wherever generate interpolates it, so no piece of the document
\* that is such a field holds a raw <, >, " or '.
C21_FieldsEscaped ==
  gpc = "done" =>
    \A i \in 1..Len(out) :
      out[i].from \in RenderFields =>
        \A j \in 1..Len(out[i].text) : out[i].text[j] \notin MarkupChars

\* ------------------------------------------------------------------------
\* Properties of the extracted images (specification SpecImages)
\* ------------------------------------------------------------------------
IsAbsoluteHttp(src) ==
  \/ StartsWith(src, <<"http", ":", "/", "/">>)
  \/ StartsWith(src, <<"http", "s", ":", "/", "/">>)

\* the src the element contributes when // is completed with https: and a
\* single leading / with the page's origin
ResolvedSrc(el, baseUrl) ==
  LET src == IF TruthyText(el.src) THEN el.src ELSE el.dataSrc
      page == ParseURL(baseUrl)
  IN  IF StartsWith(src, <<"/", "/">>) THEN <<"http", "s", ":">> \o src
      ELSE IF StartsWith(src, <<"/">>)
        THEN page.protocol \o <<"/", "/">> \o page.host \o src
      ELSE src

\* C22: every image of the IR has a src that begins with http:// or
\* https://; a protocol-relative src (//host/path) becomes https://host/path,
\* a root-relative src (/path) becomes <page origin>/path, and a src that is
\* not absolute http(s):// after that is dropped, for every page URL.
C22_ImageSrcAbsolute ==
  gpc = "done" =>
    /\ \A i \in 1..Len(out) : IsAbsoluteHttp(out[i].src)
    /\ [i \in 1..Len(out) |-> out[i].src]
         = SelectSeq([i \in 1..Len(arg.imgs) |-> ResolvedSrc(arg.imgs[i], arg.baseUrl)],
                     IsAbsoluteHttp)

\* ------------------------------------------------------------------------
\* Properties of the entity type detection (specification SpecEntity)
\* ------------------------------------------------------------------------
HasWord(article, w) == \E i \in 1..Len(article.textContent) : article.textContent[i] = w

ProductWords(article) ==
  HasWord(article, "jiage") \/ HasWord(article, "goumai") \/ HasWord(article, "kucun")

\* a selector query threw before the detection had a result
DetectionThrew(article, dom) == dom.throws /\ ~ProductWords(article)

MatchesProduct(article, dom) ==
  ProductWords(article) \/ dom.itempropPrice > 0 \/ dom.price > 0

MatchesNews(article, dom) ==
  \/ article.publishedTime # Absent
  \/ HasWord(article, "jizhe") \/ HasWord(article, "baodao")
  \/ dom.metaPublishedTime > 0

MatchesBlog(article, dom) ==
  \/ article.byline # Absent
  \/ HasWord(article, "zuozhe")
  \/ dom.author > 0 \/ dom.relAuthor > 0

\* C23: mainEntityType is decided by the first matching rule in the order
\* Product, NewsArticle, BlogPosting, default Article: a Product match wins
\* over News and Blog matches, a News match without a Product match wins over
\* a Blog match, the result is always one of the four values, and it is
\* Article when the detection throws.
C23_FirstRuleWins ==
  gpc = "done" =>
    LET a == arg.article
        d == arg.dom
    IN  /\ out \in SchemaTypes
        /\ out = IF DetectionThrew(a, d) THEN "Article"
                 ELSE IF MatchesProduct(a, d) THEN "Product"
                 ELSE IF MatchesNews(a, d) THEN "NewsArticle"
                 ELSE IF MatchesBlog(a, d) THEN "BlogPosting"
                 ELSE "Article"

\* all three rules match, through a selector, a property and a word
C23_Witness ==
  /\ gpc = "done"
  /\ out = "Product"
  /\ ~ProductWords(arg.article) /\ arg.dom.price > 0
  /\ arg.article.publishedTime # Absent
  /\ HasWord(arg.article, "zuozhe")
====
